---- MODULE Spec2Model ----
(***************************************************************************)
(* Model of the CAQH field-extraction engine                               *)
(* (src/src/extraction/field_extractor.py and its collaborators).          *)
(*                                                                         *)
(* Text is a sequence of one-character strings over a small alphabet:      *)
(*   "M", "K"      the two label strings a field configuration may use     *)
(*   "1", "2"      digits: the characters the value pattern \d matches     *)
(*   "x"           a lower-case word character that matches no pattern     *)
(*   "N","P","I"   the letters of the sibling label "NPI"                  *)
(*   "S"           the configured section name                             *)
(*   "H"           an upper-case letter used only in major section headers *)
(*   "B", "b"      an organisation name the PBS extractor recognises       *)
(*                 (pattern 1, confidence 0.95 / pattern 5, 0.80)          *)
(*   "T"           the heading of the tax-information sub-section          *)
(*   "L"           the insurance section: its "INSURANCE INFORMATION"      *)
(*                 heading followed by the policy blocks of the document   *)
(*   "F","f","t","p","q","u"  dates: two days and one day ahead, today,    *)
(*                 one and two days ago, and a date no format parses       *)
(*   ":" "." " " "\n" colon, filler, blank and newline                     *)
(* A field-bearing text is built from tokens (short character strings)     *)
(* placed before and after a label.                                        *)
(* Confidences are exact fractions num/den (den = 100 * max_distance       *)
(* inside one label search, 100 elsewhere).                                *)
(***************************************************************************)
EXTENDS Integers, Sequences, FiniteSets, TLC

VARIABLES entry, pc, doc, field_names, config, idx, field_results, result, calls,
          insurance_cache,
          attempts,                          \* read_pdf_text: what each strategy did
          history, now,                      \* DuplicateDetector.history, the clock
          cache_files, metadata, pdf_files,  \* OCRCacheManager and the PDFs on disk
          cached_for,                        \* what cache_text was last given for each path
          process_result                     \* the dictionary process_pdf returns

\* the state of the collaborators of the extraction engine
edgeVars == <<attempts, history, now, cache_files, metadata, pdf_files, cached_for,
              process_result>>

vars == <<entry, pc, doc, field_names, config, idx, field_results, result, calls,
          insurance_cache, attempts, history, now, cache_files, metadata, pdf_files,
          cached_for, process_result>>

\* ---------------------------------------------------------------------
\* Bounds of the model
\* ---------------------------------------------------------------------
MaxSide == 2
MaxRadius == 3
MaxFields == 2
MaxCalls == 3

\* ---------------------------------------------------------------------
\* Character classes (Python re: \w, \s, \d, [A-Z])
\* ---------------------------------------------------------------------
NL == "\n"

IsSpace(c) == c \in {" ", NL}

IsDigit(c) == c \in {"1", "2"}

IsUpper(c) == c \in {"M", "K", "N", "P", "I", "S", "H", "B"}

IsWord(c) == IsDigit(c) \/ IsUpper(c) \/ c \in {"x", "b"}

\* ---------------------------------------------------------------------
\* String helpers (Python slicing, strip, rstrip(':'), split('\n'))
\* ---------------------------------------------------------------------
Min(a, b) == IF a < b THEN a ELSE b

Max(a, b) == IF a > b THEN a ELSE b

\* s[a:b] with 0-based Python positions, 0 <= a, b
Slice(s, a, b) ==
  LET hi == Min(b, Len(s)) IN
  IF a >= hi THEN <<>> ELSE SubSeq(s, a + 1, hi)

RECURSIVE LStrip(_)
LStrip(s) == IF s # <<>> /\ IsSpace(Head(s)) THEN LStrip(Tail(s)) ELSE s

RECURSIVE RStrip(_)
RStrip(s) ==
  IF s # <<>> /\ IsSpace(s[Len(s)]) THEN RStrip(SubSeq(s, 1, Len(s) - 1)) ELSE s

Strip(s) == LStrip(RStrip(s))

RECURSIVE RStripColon(_)
RStripColon(s) ==
  IF s # <<>> /\ s[Len(s)] = ":" THEN RStripColon(SubSeq(s, 1, Len(s) - 1)) ELSE s

\* line.strip().rstrip(':').strip()
CleanLine(s) == Strip(RStripColon(Strip(s)))

RECURSIVE SplitLines(_)
SplitLines(s) ==
  IF \A i \in 1..Len(s) : s[i] # NL THEN <<s>>
  ELSE LET k == CHOOSE i \in 1..Len(s) : s[i] = NL /\ \A j \in 1..(i - 1) : s[j] # NL
       IN <<SubSeq(s, 1, k - 1)>> \o SplitLines(SubSeq(s, k + 1, Len(s)))

\* First position p >= from (0-based) with Q(p), or -1
FirstPos(S) == IF S = {} THEN -1 ELSE CHOOSE p \in S : \A q \in S : p <= q

LastPos(S) == IF S = {} THEN -1 ELSE CHOOSE p \in S : \A q \in S : p >= q

\* end of the run of whitespace starting at 0-based position p
RECURSIVE SkipSpace(_, _)
SkipSpace(s, p) == IF p < Len(s) /\ IsSpace(s[p + 1]) THEN SkipSpace(s, p + 1) ELSE p

\* Stable sort of a sequence, where before[i][j] says that element i has a
\* strictly smaller key than element j (Python list.sort keeps equal keys
\* in input order)
SortStable(s, before) ==
  LET Rank(i) == Cardinality({j \in 1..Len(s) :
                    before[j][i] \/ (~before[i][j] /\ j < i)}) + 1
  IN [r \in 1..Len(s) |-> s[CHOOSE i \in 1..Len(s) : Rank(i) = r]]

\* ---------------------------------------------------------------------
\* Results
\* ---------------------------------------------------------------------
None == <<"None">>

\* Python truthiness of an Optional[str]
Truthy(v) == v # None /\ v # <<>>

FieldExtractionResult(fname, value, num, den, method, errors, warnings, notes) ==
  [field_name |-> fname, extracted_value |-> value, confidence |-> <<num, den>>,
   extraction_method |-> method, errors |-> errors, warnings |-> warnings,
   notes |-> notes]

NoNotes == [kind |-> "none"]

Returned(r) == [kind |-> "return", value |-> r]

Raised(e) == [kind |-> "raise", value |-> e]

\* ---------------------------------------------------------------------
\* Label search (_extract_using_label, label pattern and label match)
\* ---------------------------------------------------------------------
ShortFirstWord == 6

TaxContextBefore == 200

\* len(label.split()[0]); a blank label has no first word (IndexError)
LabelIsBlank(label) == IsSpace(label)

LabelFirstWordLen(label) == 1

\* (?<!\w) label : the label character at 0-based position p
LabelMatchesAt(s, p, label) ==
  /\ p < Len(s)
  /\ s[p + 1] = label
  /\ (LabelFirstWordLen(label) <= ShortFirstWord => (p = 0 \/ ~IsWord(s[p])))

\* end of label \s*:?\s* for a label starting at p
LabelMatchEnd(s, p) ==
  LET a == SkipSpace(s, p + 1)
      b == IF a < Len(s) /\ s[a + 1] = ":" THEN a + 1 ELSE a
  IN SkipSpace(s, b)

LabelPositions(s, label) == {p \in 0..(Len(s) - 1) : LabelMatchesAt(s, p, label)}

\* practice_location_name: matches preceded by "Tax Information" are skipped
InTaxSubsection(s, p) ==
  \E i \in 1..Len(Slice(s, Max(0, p - TaxContextBefore), p)) :
     Slice(s, Max(0, p - TaxContextBefore), p)[i] = "T"

\* start of the label match used, or -1
FindLabel(s, fname, label) ==
  IF fname = "practice_location_name"
  THEN FirstPos({p \in LabelPositions(s, label) : ~InTaxSubsection(s, p)})
  ELSE FirstPos(LabelPositions(s, label))

\* ---------------------------------------------------------------------
\* Value patterns: "" none, "d" = \d, "D" = a date, "(" = invalid regex
\* ---------------------------------------------------------------------
DateChars == {"F", "f", "t", "p", "q", "u"}

PatternIsValid(pattern) == pattern # "("

PatternMatches(pattern, c) ==
  CASE pattern = "d" -> IsDigit(c)
    [] pattern = "D" -> c \in DateChars
    [] OTHER -> FALSE

\* 0-based start positions of the pattern's matches in a region
MatchPositions(pattern, region) ==
  {p \in 0..(Len(region) - 1) : PatternMatches(pattern, region[p + 1])}

\* datetime.strptime over the configured formats; days relative to today
\* ("u" matches the date pattern but parses under no format)
ParsesAsDate(v) == Len(v) = 1 /\ v[1] \in {"F", "f", "t", "p", "q"}

DaysFromToday(v) ==
  CASE v[1] = "F" -> 2 [] v[1] = "f" -> 1 [] v[1] = "t" -> 0
    [] v[1] = "p" -> -1 [] v[1] = "q" -> -2

\* ---------------------------------------------------------------------
\* Candidates of one label match (_extract_using_label).  Confidences of
\* one label search are numerators over 100 * max_distance.
\* ---------------------------------------------------------------------
Candidate(value, conf, dist, dir) ==
  [value |-> value, conf |-> conf, dist |-> dist, dir |-> dir, ulp |-> 0]

\* the elements of a finite set of integers, ascending
Ascending(S) ==
  [r \in 1..Cardinality(S) |-> CHOOSE p \in S : Cardinality({q \in S : q < p}) = r - 1]

AfterConf_LowerBase(d, R) == Max(0, 80 * R - 25 * d)

AfterConf(d, R) == Max(0, 90 * R - 20 * d)

BeforeConf(d, R) == Max(0, 85 * R - 25 * d)

\* The scores are Python floats.  The exact after and before scores coincide
\* when R = 4 * da - 5 * db; for these <<R, da>> the double computed by
\* 0.90 - (da / R * 0.20) is one unit in the last place above the double
\* computed by 0.85 - (db / R * 0.25), and for every other coincidence with
\* R <= 7 or R = 50 the two doubles are equal.
RoundsAbove == {<<3, 2>>, <<6, 4>>, <<50, 15>>, <<50, 20>>, <<50, 25>>}

AfterCandidate(after, p, R) ==
  [Candidate(<<after[p + 1]>>, AfterConf(p, R), p, "after")
     EXCEPT !.ulp = IF <<R, p>> \in RoundsAbove THEN 1 ELSE 0]

BeforeCandidate(before, p, R) ==
  Candidate(<<before[p + 1]>>, BeforeConf(Len(before) - (p + 1), R),
            Len(before) - (p + 1), "before")

\* lines 329-369: every match for the license expiration date, otherwise
\* the first match after and the last match before the label
PatternCandidates(fname, pattern, after, before, R) ==
  LET am == MatchPositions(pattern, after)
      bm == MatchPositions(pattern, before)
  IN IF pattern = "" THEN <<>>
     ELSE IF fname = "professional_license_expiration_date"
     THEN [i \in 1..Cardinality(am) |-> AfterCandidate(after, Ascending(am)[i], R)]
          \o [i \in 1..Cardinality(bm) |-> BeforeCandidate(before, Ascending(bm)[i], R)]
     ELSE (IF am = {} THEN <<>> ELSE <<AfterCandidate(after, FirstPos(am), R)>>)
          \o (IF bm = {} THEN <<>> ELSE <<BeforeCandidate(before, LastPos(bm), R)>>)

\* s[-n:] and s[:n] of a list
LastN(s, n) == IF Len(s) <= n THEN s ELSE SubSeq(s, Len(s) - n + 1, Len(s))

FirstN(s, n) == IF Len(s) <= n THEN s ELSE SubSeq(s, 1, n)

Reverse(s) == [i \in 1..Len(s) |-> s[Len(s) + 1 - i]]

\* lines 453-461: first usable line among the first 3 after the label
LineAfterCandidates(after, R) ==
  LET lines == FirstN(SplitLines(after), 3)
      ok == {i \in 1..Len(lines) : Len(CleanLine(lines[i])) > 1}
      i == FirstPos(ok)
  IN IF ok = {} THEN <<>>
     ELSE <<Candidate(CleanLine(lines[i]), Max(0, 75 * R - (i - 1) * 15 * R), i - 1, "after")>>

\* lines 463-472: first usable line among the last 3 before the label
LineBeforeCandidates(before, R) ==
  LET lines == Reverse(LastN(SplitLines(before), 3))
      ok == {i \in 1..Len(lines) : Len(CleanLine(lines[i])) > 1}
      i == FirstPos(ok)
  IN IF ok = {} THEN <<>>
     ELSE <<Candidate(CleanLine(lines[i]), Max(0, 70 * R - (i - 1) * 15 * R), i - 1, "before")>>

\* stop_patterns of lines 394-406 that the alphabet can spell:
\* ':\s*:' anywhere in the line and '^\d{3,5}\s' at its start
HitsDelimiter(line) ==
  \/ \E i \in 1..Len(line) : line[i] = ":" /\ SkipSpace(line, i) < Len(line)
                             /\ line[SkipSpace(line, i) + 1] = ":"
  \/ \E n \in 3..5 : /\ Len(line) > n
                     /\ \A i \in 1..n : IsDigit(line[i])
                     /\ IsSpace(line[n + 1])

RECURSIVE JoinWithSpace(_)
JoinWithSpace(parts) ==
  IF parts = <<>> THEN <<>>
  ELSE IF Len(parts) = 1 THEN parts[1]
  ELSE parts[1] \o <<" ">> \o JoinWithSpace(Tail(parts))

\* lines 391-452: practice_location_name collects lines on both sides
PracticeNameCandidates(after, before, R) ==
  LET blines == LastN(SplitLines(before), 3)
      before_collected ==
        LET keep == SelectSeq(blines, LAMBDA l : Len(Strip(l)) > 1)
        IN [i \in 1..Len(keep) |-> Strip(keep[i])]
      alines == FirstN(SplitLines(after), 8)
      stops == {i \in 1..Len(alines) : HitsDelimiter(alines[i])}
      upto == IF stops = {} THEN alines ELSE SubSeq(alines, 1, FirstPos(stops) - 1)
      after_collected ==
        LET keep == SelectSeq(upto, LAMBDA l : Len(CleanLine(l)) >= 1)
        IN [i \in 1..Len(keep) |-> CleanLine(keep[i])]
      all_collected == before_collected \o after_collected
  IN IF all_collected = <<>> THEN <<>>
     ELSE <<Candidate(JoinWithSpace(all_collected),
                      IF before_collected # <<>> /\ after_collected # <<>>
                      THEN 85 * R ELSE 80 * R,
                      0, "bidirectional")>>

\* lines 387-472
FallbackCandidates(fname, after, before, R) ==
  LET first == IF fname = "practice_location_name"
               THEN PracticeNameCandidates(after, before, R)
               ELSE LineAfterCandidates(after, R)
  IN IF first # <<>> THEN first ELSE LineBeforeCandidates(before, R)

\* ---------------------------------------------------------------------
\* medicaid_id: NPI context filter (lines 486-530)
\* ---------------------------------------------------------------------
NpiContextWindow == 50

\* npi_indicators the alphabet can spell: \bNPI\s*:
HasNpiContext(ctx) ==
  \E i \in 1..(Len(ctx) - 3) :
     /\ ctx[i] = "N" /\ ctx[i + 1] = "P" /\ ctx[i + 2] = "I"
     /\ (i = 1 \/ ~IsWord(ctx[i - 1]))
     /\ SkipSpace(ctx, i + 2) < Len(ctx)
     /\ ctx[SkipSpace(ctx, i + 2) + 1] = ":"

CandidateContext(text, label_start, label_end, c) ==
  IF c.dir = "after"
  THEN Slice(text, Max(0, label_end - NpiContextWindow),
             Min(Len(text), label_end + c.dist + Len(c.value) + NpiContextWindow))
  ELSE Slice(text, Max(0, label_start - c.dist - Len(c.value) - NpiContextWindow),
             Min(Len(text), label_start + NpiContextWindow))

NpiFiltered_KeepsAll(text, label_start, label_end, cands) == cands

NpiFiltered(text, label_start, label_end, cands) ==
  SelectSeq(cands, LAMBDA c : ~HasNpiContext(CandidateContext(text, label_start, label_end, c)))

\* ---------------------------------------------------------------------
\* professional_license_expiration_date: future-date selector (532-608)
\* ---------------------------------------------------------------------
FutureBoost(conf, R) == Min(100 * R, conf + 10 * R)

PastLowered(conf, R) == Max(30 * R, conf - 20 * R)

\* the candidates ordered by confidence alone
DateOrderBefore_ByConfidence(a, b) == a.conf > b.conf

\* sort key (-date, -confidence)
DateOrderBefore(a, b) ==
  \/ DaysFromToday(a.value) > DaysFromToday(b.value)
  \/ (DaysFromToday(a.value) = DaysFromToday(b.value) /\ a.conf > b.conf)

FutureCandidates(cands, R) ==
  LET fut == SelectSeq(cands, LAMBDA c : ParsesAsDate(c.value) /\ DaysFromToday(c.value) > 0)
      boosted == [i \in 1..Len(fut) |-> [fut[i] EXCEPT !.conf = FutureBoost(fut[i].conf, R)]]
  IN SortStable(boosted,
       [i \in 1..Len(boosted) |-> [j \in 1..Len(boosted) |-> DateOrderBefore(boosted[i], boosted[j])]])

PastCandidates(cands, R) ==
  LET past == SelectSeq(cands, LAMBDA c : ParsesAsDate(c.value))
      lowered == [i \in 1..Len(past) |-> [past[i] EXCEPT !.conf = PastLowered(past[i].conf, R)]]
  IN SortStable(lowered,
       [i \in 1..Len(lowered) |-> [j \in 1..Len(lowered) |-> DateOrderBefore(lowered[i], lowered[j])]])

\* ---------------------------------------------------------------------
\* Final selection (lines 610-653)
\* ---------------------------------------------------------------------
\* sort key (-confidence, distance)
ConfidenceOrderBefore(a, b) ==
  \/ a.conf > b.conf
  \/ (a.conf = b.conf /\ a.ulp > b.ulp)
  \/ (a.conf = b.conf /\ a.ulp = b.ulp /\ a.dist < b.dist)

PatternBonus_Unclamped(conf, pattern, R) == IF pattern # "" THEN conf + 5 * R ELSE conf

PatternBonus(conf, pattern, R) == IF pattern # "" THEN Min(100 * R, conf + 5 * R) ELSE conf

\* ' '.join(value.split())
RECURSIVE CollapseSpaces(_)
CollapseSpaces(s) ==
  LET t == LStrip(s)
      ws == {i \in 1..Len(t) : IsSpace(t[i])}
  IN IF t = <<>> THEN <<>>
     ELSE IF ws = {} THEN t
     ELSE LET k == FirstPos(ws)
              rest == CollapseSpaces(SubSeq(t, k, Len(t)))
          IN SubSeq(t, 1, k - 1) \o (IF rest = <<>> THEN <<>> ELSE <<" ">> \o rest)

\* re.sub(r'[:\-]\s*$', '', value)
DropTrailingColon(s) ==
  LET r == RStrip(s)
  IN IF r # <<>> /\ r[Len(r)] = ":" THEN SubSeq(r, 1, Len(r) - 1) ELSE s

\* re.sub(r'\s*:\s*', ' ', value), then whitespace collapsed
ColonsToSpaces(s) == [i \in 1..Len(s) |-> IF s[i] = ":" THEN " " ELSE s[i]]

\* normalize_pbs_name / clean_practice_location_name / ' '.join(split())
CleanPracticeName(v) ==
  IF \E i \in 1..Len(v) : v[i] \in {"B", "b"}
  THEN <<"B">>
  ELSE CollapseSpaces(ColonsToSpaces(DropTrailingColon(v)))

CheckExtractionWarnings(v) == IF Len(v) < 2 THEN <<[kind |-> "very_short"]>> ELSE <<>>

\* ---------------------------------------------------------------------
\* _extract_using_label (lines 227-653)
\* ---------------------------------------------------------------------
BidirectionalResult(fname, value, num, R, errors, warnings, notes) ==
  Returned(FieldExtractionResult(fname, value, num, 100 * R, "bidirectional_search",
                                 errors, warnings, notes))

\* lines 610-653, from the candidates that survived the field filters
SelectBest(fname, label, pattern, R, cands) ==
  LET best == SortStable(cands,
                [i \in 1..Len(cands) |-> [j \in 1..Len(cands) |-> ConfidenceOrderBefore(cands[i], cands[j])]])[1]
      value == IF fname = "practice_location_name"
               THEN CleanPracticeName(best.value) ELSE best.value
  IN BidirectionalResult(fname, value, PatternBonus(best.conf, pattern, R), R, <<>>,
                         CheckExtractionWarnings(value),
                         [kind |-> "label", label |-> label, dir |-> best.dir, dist |-> best.dist])

\* lines 532-608
SelectLicenseDate(fname, label, pattern, R, cands) ==
  LET future == FutureCandidates(cands, R)
      past == PastCandidates(cands, R)
  IN IF future # <<>> THEN SelectBest(fname, label, pattern, R, future)
     ELSE IF past # <<>>
     THEN BidirectionalResult(fname, past[1].value, past[1].conf, R, <<>>,
                              <<[kind |-> "license_expired", days_ago |-> 0 - DaysFromToday(past[1].value)]>>,
                              [kind |-> "expired", n |-> Len(past)])
     ELSE BidirectionalResult(fname, None, 0, R, <<[kind |-> "dates_unparseable"]>>, <<>>,
                              [kind |-> "date_parsing_failed"])

\* lines 486-653
SelectFromCandidates(text, fname, label, pattern, R, label_start, label_end, cands) ==
  LET kept == NpiFiltered(text, label_start, label_end, cands)
  IN IF fname = "medicaid_id"
     THEN IF kept # <<>> THEN SelectBest(fname, label, pattern, R, kept)
          ELSE BidirectionalResult(fname, None, 0, R, <<[kind |-> "all_npi_labeled"]>>, <<>>,
                                   [kind |-> "rejected_npi", n |-> Len(cands)])
     ELSE IF fname = "professional_license_expiration_date"
     THEN SelectLicenseDate(fname, label, pattern, R, cands)
     ELSE SelectBest(fname, label, pattern, R, cands)

\* lines 313-325: the search regions on the two sides of the label match
AfterRegion(text, label_end, R) == Slice(text, label_end, Min(Len(text), label_end + R))

BeforeRegion(text, label_start, R) == Slice(text, Max(0, label_start - R), label_start)

ExtractUsingLabel(text, fname, label, pattern, R, cfg) ==
  IF LabelIsBlank(label) THEN Raised("IndexError")
  ELSE
  LET label_start == FindLabel(text, fname, label)
      label_end == LabelMatchEnd(text, label_start)
      after == AfterRegion(text, label_end, R)
      before == BeforeRegion(text, label_start, R)
      matched == PatternCandidates(fname, pattern, after, before, R)
      cands == IF matched # <<>> THEN matched
               ELSE FallbackCandidates(fname, after, before, R)
  IN IF label_start = -1
     THEN BidirectionalResult(fname, None, 0, R, <<[kind |-> "label_not_found", label |-> label]>>, <<>>, NoNotes)
     ELSE IF pattern # "" /\ ~PatternIsValid(pattern) THEN Raised("re.error")
     ELSE IF matched = <<>> /\ cfg.pattern_required /\ pattern # ""
     THEN BidirectionalResult(fname, None, 0, R, <<[kind |-> "pattern_not_matched", label |-> label]>>, <<>>,
                              [kind |-> "pattern_required"])
     ELSE IF cands = <<>>
     THEN BidirectionalResult(fname, None, 30 * R, R, <<[kind |-> "no_value_either_direction", label |-> label]>>,
                              IF pattern # "" THEN <<[kind |-> "expected_pattern", pattern |-> pattern]>> ELSE <<>>,
                              NoNotes)
     ELSE SelectFromCandidates(text, fname, label, pattern, R, label_start, label_end, cands)

\* ---------------------------------------------------------------------
\* Section locator (extract_field, lines 74-113)
\* ---------------------------------------------------------------------
MajorHeaderMinRun == 10

\* (?:SECTION\s+\d+\s*:?\s*)?<section name>, first match; -1 if none
SectionHeaderPos(text, section) ==
  FirstPos({p \in 0..(Len(text) - 1) : text[p + 1] = section})

\* \n\s*[A-Z][A-Z\s]{10,}\s*\n matching at 0-based position q of rest
MajorHeaderAt(rest, q) ==
  LET j == SkipSpace(rest, q + 1)
  IN /\ rest[q + 1] = NL
     /\ j < Len(rest)
     /\ IsUpper(rest[j + 1])
     /\ \E k \in (j + 1 + MajorHeaderMinRun)..(Len(rest) - 1) :
           /\ rest[k + 1] = NL
           /\ \A m \in (j + 1)..(k - 1) : IsUpper(rest[m + 1]) \/ IsSpace(rest[m + 1])

\* the section end taken as the position of the next header within the
\* rest of the text, without adding section_start
SectionRange_RelativeEnd(text, section) ==
  LET h == SectionHeaderPos(text, section)
      start == h + 1
      rest == Slice(text, start, Len(text))
      q == FirstPos({p \in 0..(Len(rest) - 1) : MajorHeaderAt(rest, p)})
  IN IF section = "" \/ h = -1 THEN <<0, Len(text)>>
     ELSE <<start, IF q = -1 THEN Len(text) ELSE q>>

\* [section_start, section_end) of the search text; the whole text when no
\* section is configured or its header is not found
SectionRange(text, section) ==
  LET h == SectionHeaderPos(text, section)
      start == h + 1
      rest == Slice(text, start, Len(text))
      q == FirstPos({p \in 0..(Len(rest) - 1) : MajorHeaderAt(rest, p)})
  IN IF section = "" \/ h = -1 THEN <<0, Len(text)>>
     ELSE <<start, IF q = -1 THEN Len(text) ELSE start + q>>

SearchText(text, section) ==
  Slice(text, SectionRange(text, section)[1], SectionRange(text, section)[2])

\* ---------------------------------------------------------------------
\* Insurance selector (extract_insurance_fields, lines 263-402) over the
\* policy blocks of the insurance section of the full text: each block has
\* a policy number, an expiration date and a carrier name ("" when the
\* block has none)
\* ---------------------------------------------------------------------
InsuranceFields ==
  {"insurance_policy_number", "insurance_current_expiration_date", "insurance_carrier_name"}

AllNone == [f \in InsuranceFields |-> None]

PolicyData(b) ==
  [f \in InsuranceFields |->
     IF f = "insurance_policy_number" THEN <<b.number>>
     ELSE IF f = "insurance_carrier_name"
     THEN (IF b.carrier = "" THEN None ELSE <<b.carrier>>)
     ELSE IF b.expiration = "" THEN None ELSE <<b.expiration>>]

\* the sort of line 389 without reverse=True
LaterExpirationFirst_Ascending(a, b) ==
  DaysFromToday(<<a.expiration>>) < DaysFromToday(<<b.expiration>>)

LaterExpirationFirst(a, b) ==
  DaysFromToday(<<a.expiration>>) > DaysFromToday(<<b.expiration>>)

\* re.search(r'INSURANCE\s+INFORMATION', text): 0-based position or -1
InsuranceSectionPos(text) ==
  FirstPos({p \in 0..(Len(text) - 1) : text[p + 1] = "L"})

ExtractInsuranceFields(text, blocks) ==
  LET policies == SelectSeq(blocks, LAMBDA b : b.expiration # "")
      with_dates == SelectSeq(policies, LAMBDA b : ParsesAsDate(<<b.expiration>>))
  IN IF InsuranceSectionPos(text) = -1 THEN AllNone
     ELSE IF policies = <<>> THEN AllNone
     ELSE IF with_dates # <<>>
     THEN PolicyData(SortStable(with_dates,
            [i \in 1..Len(with_dates) |-> [j \in 1..Len(with_dates) |-> LaterExpirationFirst(with_dates[i], with_dates[j])]])[1])
     ELSE PolicyData(policies[1])

\* ---------------------------------------------------------------------
\* Organisation-name extractor (extract_pbs_practice_name_complete)
\* ---------------------------------------------------------------------
PbsAccept == 80

PbsName == <<"B">>

\* <<name, confidence in hundredths>>
ExtractPbsPracticeNameComplete(text, pattern_required) ==
  IF \E i \in 1..Len(text) : text[i] = "B" THEN <<PbsName, 95>>
  ELSE IF \E i \in 1..Len(text) : text[i] = "b" THEN <<PbsName, 80>>
  ELSE <<None, 0>>

\* ---------------------------------------------------------------------
\* extract_field (lines 50-224)
\* ---------------------------------------------------------------------
DefaultMaxDistance == 50

\* field_name.startswith("insurance_")
IsInsuranceField(fname) == fname \in InsuranceFields

\* a cache key taken from the part of the text before the policy blocks
TextHash_HeadOnly(d) == d.text

\* hashlib.md5(text.encode()).hexdigest()[:16] of the document text (the
\* policy blocks are part of that text)
TextHash(d) == <<d.text, d.policies>>

MaxDistanceOf(fc) == IF fc.has_max_distance THEN fc.max_distance ELSE DefaultMaxDistance

\* the label loop without its early return: the last label that yields a
\* value wins
RECURSIVE TryLabels_LastWins(_, _, _, _)
TryLabels_LastWins(search_text, fname, fc, i) ==
  IF i > Len(fc.labels)
  THEN Returned(FieldExtractionResult(fname, None, 0, 100, "label_proximity",
                  <<[kind |-> "labels_not_found", labels |-> fc.labels]>>, <<>>,
                  [kind |-> "tried_labels", labels |-> fc.labels]))
  ELSE LET r == ExtractUsingLabel(search_text, fname, fc.labels[i], fc.pattern,
                                  MaxDistanceOf(fc), fc)
           rest == TryLabels_LastWins(search_text, fname, fc, i + 1)
       IN IF r.kind = "raise" THEN r
          ELSE IF rest.kind = "raise" THEN rest
          ELSE IF Truthy(rest.value.extracted_value) THEN rest
          ELSE IF Truthy(r.value.extracted_value) THEN r
          ELSE rest

\* lines 206-224: the labels in order; the first label that yields a value
RECURSIVE TryLabels(_, _, _, _)
TryLabels(search_text, fname, fc, i) ==
  IF i > Len(fc.labels)
  THEN Returned(FieldExtractionResult(fname, None, 0, 100, "label_proximity",
                  <<[kind |-> "labels_not_found", labels |-> fc.labels]>>, <<>>,
                  [kind |-> "tried_labels", labels |-> fc.labels]))
  ELSE LET r == ExtractUsingLabel(search_text, fname, fc.labels[i], fc.pattern,
                                  MaxDistanceOf(fc), fc)
       IN IF r.kind = "raise" THEN r
          ELSE IF Truthy(r.value.extracted_value) THEN r
          ELSE TryLabels(search_text, fname, fc, i + 1)

\* lines 118-150
InsuranceResult(fname, data) ==
  LET value == IF fname \in DOMAIN data THEN data[fname] ELSE None
  IN Returned(FieldExtractionResult(fname, value, IF Truthy(value) THEN 90 ELSE 0, 100,
                "insurance_extractor", <<>>, <<>>,
                IF Truthy(value) THEN [kind |-> "furthest_expiration"]
                ELSE [kind |-> "no_insurance_data"]))

CacheAfter(d, fname, cache) ==
  IF IsInsuranceField(fname) /\ TextHash(d) \notin DOMAIN cache
  THEN [k \in DOMAIN cache \cup {TextHash(d)} |->
          IF k = TextHash(d) THEN ExtractInsuranceFields(d.text, d.policies) ELSE cache[k]]
  ELSE cache

\* the outcome of extract_field: Returned(result) or Raised(exception)
ExtractField(d, fname, fc, cache) ==
  LET section == IF fc.has_extraction THEN fc.section ELSE ""
      search_text == SearchText(d.text, section)
      pbs == ExtractPbsPracticeNameComplete(search_text,
                 fc.has_extraction /\ fc.pattern_required)
  IN IF IsInsuranceField(fname)
     THEN InsuranceResult(fname, CacheAfter(d, fname, cache)[TextHash(d)])
     ELSE IF fname = "practice_location_name" /\ Truthy(pbs[1]) /\ pbs[2] >= PbsAccept
     THEN Returned(FieldExtractionResult(fname, pbs[1], pbs[2], 100, "pbs_extractor",
                     <<>>, <<>>, [kind |-> "pbs_detected", section |-> section]))
     ELSE IF ~fc.has_extraction
     THEN Returned(FieldExtractionResult(fname, None, 0, 100, "no_config",
                     <<[kind |-> "no_extraction_config", field |-> fname]>>, <<>>, NoNotes))
     ELSE IF fc.labels = <<>>
     THEN Returned(FieldExtractionResult(fname, None, 0, 100, "no_labels",
                     <<[kind |-> "no_labels", field |-> fname]>>, <<>>, NoNotes))
     ELSE TryLabels(search_text, fname, fc, 1)

\* ---------------------------------------------------------------------
\* Document-type checks.  The complete document text is described by its
\* length and by the set of (lower-cased) marker phrases it contains;
\* d.text is the part of it that carries the field labels and values.
\* ---------------------------------------------------------------------
MinCaqhTextLength == 100

MIN_LENGTH == 2000

MinSections == 2

MinLabelCount == 3

MinFileSize == 1000

\* substring test: a longer phrase contains the shorter ones
HasPhrase(d, phrase) ==
  \/ phrase \in d.phrases
  \/ phrase = "npi" /\ "individual npi" \in d.phrases
  \/ phrase = "provider" /\ "provider data" \in d.phrases
  \/ phrase = "license" /\ "professional license" \in d.phrases

\* pdf_reader.is_caqh_document
IsCaqhDocument(d) ==
  LET label_count == Cardinality({l \in {"social security", "npi", "medicaid", "license",
                                         "practice location"} : HasPhrase(d, l)})
  IN /\ d.length >= MinCaqhTextLength
     /\ \/ HasPhrase(d, "caqh")
        \/ /\ (HasPhrase(d, "data summary") \/ HasPhrase(d, "provider data"))
           /\ label_count >= MinLabelCount

\* DocumentTypeChecker.validate_document(...).is_valid_caqh
ValidateDocument(d) ==
  LET sections_found == Cardinality({l \in {"individual npi", "practice location",
                           "professional license", "education", "social security"} :
                           HasPhrase(d, l)})
  IN /\ d.ext = ".pdf"
     /\ \A m \in {"caqh", "data summary", "provider"} : HasPhrase(d, m)
     /\ d.length >= MIN_LENGTH
     /\ sections_found >= MinSections

\* pdf_reader.validate_pdf_file: TRUE, or the reason it is rejected
ValidatePdfFile(d) ==
  IF d.file = "missing" THEN "file_not_found"
  ELSE IF d.file = "directory" THEN "not_a_file"
  ELSE IF d.size < MinFileSize THEN "too_small"
  ELSE IF ~d.first_read_ok THEN "read_failed"
  ELSE IF ~IsCaqhDocument(d) THEN "not_caqh"
  ELSE "valid"

\* "OCR" in text (line 869): the text holds an OCR page marker
\* "--- Page N (OCR) ---", or the letters OCR occur in the document itself
ContainsOcr(d) == d.ocr_marker \/ d.ocr_word

\* ---------------------------------------------------------------------
\* DocumentExtractionResult
\* ---------------------------------------------------------------------
DefaultFieldNames ==
  <<"medicaid_id", "ssn", "individual_npi", "practice_location_name",
    "professional_license_expiration_date">>

\* the names extracted when field_names is None
EffectiveNames(names) == IF names = None THEN DefaultFieldNames ELSE names

DocumentExtractionResult(attempted, results, method, is_caqh, errors) ==
  [total_fields_attempted |-> attempted,
   fields_extracted |-> Cardinality({i \in 1..Len(results) : results[i].extracted_value # None}),
   field_results |-> results, extraction_method |-> method,
   is_caqh_document |-> is_caqh, errors |-> errors]

WrongDocumentResult(fname) ==
  FieldExtractionResult(fname, None, 0, 100, "wrong_document",
                        <<[kind |-> "wrong_document_type"]>>, <<>>,
                        [kind |-> "wrong_document_type"])

NoConfigResult(fname) ==
  FieldExtractionResult(fname, None, 0, 100, "no_config",
                        <<[kind |-> "no_configuration", field |-> fname]>>, <<>>, NoNotes)

\* ---------------------------------------------------------------------
\* Inputs: field configurations (validation_rules.yaml) and documents
\* ---------------------------------------------------------------------
FieldConfig(labels, pattern, R, section, required) ==
  [present |-> TRUE, has_extraction |-> TRUE, labels |-> labels, pattern |-> pattern,
   has_max_distance |-> TRUE, max_distance |-> R, section |-> section,
   pattern_required |-> required]

MissingConfig == [FieldConfig(<<>>, "", 1, "", FALSE) EXCEPT !.present = FALSE]

NoExtractionConfig == [FieldConfig(<<>>, "", 1, "", FALSE) EXCEPT !.has_extraction = FALSE]

AllFieldNames ==
  {DefaultFieldNames[i] : i \in 1..Len(DefaultFieldNames)}
    \cup InsuranceFields

PatternOf(fname) ==
  IF fname = "professional_license_expiration_date" THEN "D" ELSE "d"

\* one well-formed configuration table
GoodConfig(R) == [f \in AllFieldNames |-> FieldConfig(<<"M">>, PatternOf(f), R, "", FALSE)]

\* configurations a field may have instead of a well-formed one
OddConfigs ==
  {MissingConfig, NoExtractionConfig,
   FieldConfig(<<>>, "d", 1, "", FALSE),
   FieldConfig(<<"M">>, "(", 1, "", FALSE),
   FieldConfig(<<" ", "M">>, "d", 1, "", FALSE)}

Seqs(S, n) == UNION {[1..k -> S] : k \in 0..n}

RECURSIVE Flatten(_)
Flatten(tokens) == IF tokens = <<>> THEN <<>> ELSE Head(tokens) \o Flatten(Tail(tokens))

Policy(number, expiration, carrier) ==
  [number |-> number, expiration |-> expiration, carrier |-> carrier]

PolicyBlocks ==
  {<<>>,
   <<Policy("1", "f", "x"), Policy("2", "F", "")>>,
   <<Policy("1", "", "x"), Policy("2", "u", "b")>>}

Document(text, policies) ==
  [file |-> "file", size |-> 5000, ext |-> ".pdf", first_read_ok |-> TRUE,
   second_read_ok |-> TRUE, length |-> 5000,
   phrases |-> {"caqh", "data summary", "provider", "individual npi", "practice location"},
   ocr_marker |-> FALSE, ocr_word |-> FALSE, text |-> text, policies |-> policies]

\* ---------------------------------------------------------------------
\* Orchestrator: extract_all_fields (lines 729-883) and
\* extract_all_fields_from_text (lines 887-973), one action per stage
\* ---------------------------------------------------------------------
Finish(r) ==
  /\ result' = r
  /\ pc' = "done"

\* lines 747-760
ValidateFile ==
  /\ pc = "extract_all_fields"
  /\ IF ValidatePdfFile(doc) = "valid"
     THEN pc' = "read" /\ UNCHANGED result
     ELSE Finish(Returned(DocumentExtractionResult(0, <<>>, "validation_failed", FALSE,
                            <<ValidatePdfFile(doc)>>)))
  /\ UNCHANGED <<entry, doc, field_names, config, idx, field_results, calls, insurance_cache>>
  /\ UNCHANGED edgeVars

\* ReadText without the try/except around read_pdf_text
ReadText_Propagates ==
  /\ pc = "read"
  /\ IF doc.second_read_ok
     THEN pc' = "gate" /\ UNCHANGED result
     ELSE Finish(Raised("PDFReadError"))
  /\ UNCHANGED <<entry, doc, field_names, config, idx, field_results, calls, insurance_cache>>
  /\ UNCHANGED edgeVars

\* lines 762-775
ReadText ==
  /\ pc = "read"
  /\ IF doc.second_read_ok
     THEN pc' = "gate" /\ UNCHANGED result
     ELSE Finish(Returned(DocumentExtractionResult(0, <<>>, "read_failed", TRUE,
                            <<"failed_to_read_pdf">>)))
  /\ UNCHANGED <<entry, doc, field_names, config, idx, field_results, calls, insurance_cache>>
  /\ UNCHANGED edgeVars

\* lines 777-818
GateCheck ==
  /\ pc = "gate"
  /\ IF ValidateDocument(doc)
     THEN pc' = "load_config" /\ UNCHANGED <<result, field_results>>
     ELSE LET names == EffectiveNames(field_names)
              results == [i \in 1..Len(names) |-> WrongDocumentResult(names[i])]
          IN /\ field_results' = results
             /\ Finish(Returned(DocumentExtractionResult(Len(names), results,
                                  "wrong_document", FALSE, <<"wrong_document_type">>)))
  /\ UNCHANGED <<entry, doc, field_names, config, idx, calls, insurance_cache>>
  /\ UNCHANGED edgeVars

\* lines 820-844 and 912-936
LoadConfig ==
  /\ pc \in {"load_config", "extract_all_fields_from_text"}
  /\ IF config.loads
     THEN pc' = "loop" /\ UNCHANGED result
     ELSE Finish(Returned(DocumentExtractionResult(0, <<>>, "config_failed", TRUE,
                            <<"failed_to_load_config">>)))
  /\ UNCHANGED <<entry, doc, field_names, config, idx, field_results, calls, insurance_cache>>
  /\ UNCHANGED edgeVars

\* lines 861-862: the outcome of extract_field for the current field
RecordOutcome(fname, out) ==
  /\ calls' = calls + 1
  /\ insurance_cache' = CacheAfter(doc, fname, insurance_cache)
  /\ IF out.kind = "raise"
     THEN Finish(out) /\ UNCHANGED <<idx, field_results>>
     ELSE /\ field_results' = Append(field_results, out.value)
          /\ idx' = idx + 1
          /\ UNCHANGED <<pc, result>>

\* ExtractNextField whose no-configuration branch continues without
\* appending a result
ExtractNextField_DropsUnconfigured ==
  /\ pc = "loop"
  /\ idx <= Len(EffectiveNames(field_names))
  /\ LET fname == EffectiveNames(field_names)[idx]
     IN IF ~config.fields[fname].present
        THEN /\ idx' = idx + 1
             /\ UNCHANGED <<pc, result, calls, insurance_cache, field_results>>
        ELSE RecordOutcome(fname, ExtractField(doc, fname, config.fields[fname],
                                              insurance_cache))
  /\ UNCHANGED <<entry, doc, field_names, config>>
  /\ UNCHANGED edgeVars

\* ExtractNextField whose no-configuration branch gives up the whole run
ExtractNextField_AbortsOnMissing ==
  /\ pc = "loop"
  /\ idx <= Len(EffectiveNames(field_names))
  /\ LET fname == EffectiveNames(field_names)[idx]
     IN IF ~config.fields[fname].present
        THEN /\ Finish(Raised("KeyError"))
             /\ UNCHANGED <<idx, field_results, calls, insurance_cache>>
        ELSE RecordOutcome(fname, ExtractField(doc, fname, config.fields[fname],
                                              insurance_cache))
  /\ UNCHANGED <<entry, doc, field_names, config>>
  /\ UNCHANGED edgeVars

\* lines 846-862 and 938-954: one iteration of the field loop; an exception
\* raised by extract_field leaves the loop and the function
ExtractNextField ==
  /\ pc = "loop"
  /\ idx <= Len(EffectiveNames(field_names))
  /\ LET fname == EffectiveNames(field_names)[idx]
     IN IF ~config.fields[fname].present
        THEN /\ field_results' = Append(field_results, NoConfigResult(fname))
             /\ idx' = idx + 1
             /\ UNCHANGED <<pc, result, calls, insurance_cache>>
        ELSE RecordOutcome(fname, ExtractField(doc, fname, config.fields[fname],
                                              insurance_cache))
  /\ UNCHANGED <<entry, doc, field_names, config>>
  /\ UNCHANGED edgeVars

\* lines 864-883 and 956-973
Aggregate ==
  /\ pc = "loop"
  /\ idx > Len(EffectiveNames(field_names))
  /\ Finish(Returned(DocumentExtractionResult(Len(EffectiveNames(field_names)), field_results,
              IF entry = "extract_all_fields_from_text" THEN "cached_text"
              ELSE IF ContainsOcr(doc) THEN "ocr" ELSE "native_pdf",
              TRUE, <<>>)))
  /\ UNCHANGED <<entry, doc, field_names, config, idx, field_results, calls, insurance_cache>>
  /\ UNCHANGED edgeVars

NotStarted == Returned([extraction_method |-> "not_started"])

GateDocuments ==
  [file : {"missing", "directory", "file"}, size : {500, 5000}, ext : {".pdf", ".docx"},
   first_read_ok : BOOLEAN, second_read_ok : BOOLEAN, length : {50, 500, 5000},
   phrases : {ph \cup {"practice location", "medicaid"} :
                ph \in SUBSET {"caqh", "data summary", "provider", "individual npi"}},
   ocr_marker : BOOLEAN, ocr_word : BOOLEAN, text : {<<"M", "1">>}, policies : {<<>>}]

OrchTexts == {<<>>, <<"M", "1">>, <<"M", NL, "x", "x">>}

OrchNames == {"ssn", "medicaid_id", "insurance_policy_number", "practice_location_name"}

OrchConfigs ==
  {GoodConfig(2)} \cup
  {[GoodConfig(2) EXCEPT ![f] = c] : f \in OrchNames, c \in OddConfigs}

InitCommon ==
  /\ idx = 1
  /\ field_results = <<>>
  /\ result = NotStarted
  /\ calls = 0
  /\ insurance_cache = <<>>
  /\ attempts = <<>>
  /\ history = <<>>
  /\ now = 0
  /\ cache_files = <<>>
  /\ metadata = <<>>
  /\ pdf_files = <<>>
  /\ cached_for = <<>>
  /\ process_result = None

\* documents of every kind, a few field lists
InitGate ==
  /\ entry = "extract_all_fields"
  /\ doc \in GateDocuments
  /\ field_names \in {None, <<>>, <<"ssn">>, <<"ssn", "medicaid_id">>}
  /\ config = [loads |-> TRUE, fields |-> GoodConfig(2)]

\* a well-formed document, every field list and configuration table
InitFields ==
  /\ entry \in {"extract_all_fields", "extract_all_fields_from_text"}
  /\ doc \in {Document(t, <<>>) : t \in OrchTexts}
              \cup {Document(t \o <<"L">>, p) : t \in OrchTexts, p \in PolicyBlocks}
  /\ field_names \in Seqs(OrchNames, MaxFields) \cup {None}
  /\ config \in [loads : BOOLEAN, fields : OrchConfigs]

Init ==
  /\ InitCommon
  /\ InitGate \/ InitFields
  /\ pc = entry

Next ==
  \/ ValidateFile
  \/ ReadText
  \/ GateCheck
  \/ LoadConfig
  \/ ExtractNextField
  \/ Aggregate

Spec == Init /\ [][Next]_vars

\* ---------------------------------------------------------------------
\* A single extract_field call (specification SpecField)
\* ---------------------------------------------------------------------
Dots(n) == [i \in 1..n |-> "."]

\* a header line of upper-case letters, preceded and followed by a newline
HeaderLine == <<NL>> \o [i \in 1..11 |-> "H"] \o <<NL>>

NpiLabel == <<"N", "P", "I", ":">>

Char(c) == <<c>>

Radii == 1..MaxRadius

PatternConfigs(labels, pattern, section) ==
  {FieldConfig(labels, pattern, R, section, FALSE) : R \in Radii}
    \cup {FieldConfig(labels, pattern, R, section, TRUE) : R \in Radii}
    \cup {FieldConfig(labels, "", R, section, FALSE) : R \in Radii}

\* the state before extract_field(text, fname, fc) is called
Input(fname, text, policies, fc) ==
  /\ doc = Document(text, policies)
  /\ field_names = <<fname>>
  /\ config = [loads |-> TRUE,
               fields |-> [f \in AllFieldNames |-> IF f = fname THEN fc ELSE MissingConfig]]

\* tokens before, a label (or none), tokens after
LabelledText(fname, pre, mids, post, configs) ==
  \E a \in Seqs(pre, MaxSide), m \in mids, b \in Seqs(post, MaxSide), fc \in configs :
     Input(fname, Flatten(a) \o m \o Flatten(b), <<>>, fc)

GenericInputs ==
  LabelledText("ssn", {Char("1"), Char("."), Char(NL)},
               {<<>>, <<"M">>, <<"K">>, <<"M", ":">>},
               {Char("2"), Char("."), Char(NL)},
               PatternConfigs(<<"M">>, "d", "")
                 \cup {FieldConfig(<<"K", "M">>, "d", R, "", FALSE) : R \in Radii}
                 \cup {FieldConfig(<<" ", "M">>, "d", 1, "", FALSE),
                       FieldConfig(<<"M">>, "(", 1, "", FALSE)})

MedicaidInputs ==
  LabelledText("medicaid_id", {Char("1"), Char("."), NpiLabel, NpiLabel \o Dots(45)},
               {<<"M">>},
               {Char("2"), Char("."), NpiLabel, Dots(45) \o NpiLabel},
               {FieldConfig(<<"M">>, "d", R, "", FALSE) : R \in Radii}
                 \cup {FieldConfig(<<"M">>, "d", DefaultMaxDistance, "", FALSE)})

LicenseInputs ==
  LabelledText("professional_license_expiration_date",
               {Char("F"), Char("q"), Char(".")}, {<<"M">>},
               {Char("f"), Char("p"), Char("t"), Char("u"), Char(".")},
               {FieldConfig(<<"M">>, "D", R, "", FALSE) : R \in Radii})

PracticeInputs ==
  LabelledText("practice_location_name",
               {Char("T"), Char("."), Char(NL)}, {<<"M">>, <<>>},
               {Char("B"), Char("b"), Char("."), Char(NL)},
               {FieldConfig(<<"M">>, "", R, "", FALSE) : R \in Radii}
                 \cup {FieldConfig(<<"M">>, "", 1, "", TRUE), NoExtractionConfig})

MorePolicyBlocks ==
  PolicyBlocks \cup
  {<<Policy("1", e1, "x"), Policy("2", e2, "")>> :
     e1 \in {"F", "p", "u", ""}, e2 \in {"F", "p", "u", ""}}
    \cup {<<Policy("1", "p", ""), Policy("2", "F", "x"), Policy("1", "f", "b")>>,
          <<Policy("1", "", "x"), Policy("2", "", "b")>>,
          <<Policy("1", "", "x")>>}

\* the insurance section before, inside or after the configured section,
\* or absent
InsuranceInputs ==
  \E f \in InsuranceFields, p \in MorePolicyBlocks,
     t \in {<<>>, <<"L">>, <<"L", "S", "M", "1">>, <<"S", "L">>,
            <<"S", "M", "1">> \o HeaderLine \o <<"L">>},
     fc \in {NoExtractionConfig, FieldConfig(<<"M">>, "d", 1, "", FALSE),
             FieldConfig(<<"M">>, "d", 1, "S", FALSE)} :
     Input(f, t, p, fc)

\* label and value before the section header, inside the section, and after
\* the next major header
SectionInputs ==
  \E a \in Seqs({Char("M"), Char("1")}, MaxSide), s \in {<<>>, <<"S">>},
     b \in Seqs({Char("M"), Char("2")}, MaxSide), h \in {<<>>, HeaderLine},
     c \in {<<>>, <<"M", "1">>},
     fc \in {FieldConfig(<<"M">>, "d", R, sec, FALSE) : R \in Radii, sec \in {"", "S"}} :
     Input("ssn", Flatten(a) \o s \o Flatten(b) \o h \o c, <<>>, fc)

\* both labels in the text, in either order, with a digit or filler before,
\* between and after them
TwoLabelInputs ==
  \E a \in {<<>>, <<"1">>, <<".">>}, b \in {<<>>, <<"1">>, <<"2">>, <<".">>},
     c \in {<<>>, <<"2">>, <<".">>}, first \in {"K", "M"},
     fc \in {FieldConfig(ls, "d", R, "", req) :
               ls \in {<<"K", "M">>, <<"M", "K">>}, R \in Radii, req \in BOOLEAN} :
     Input("ssn", a \o <<first>> \o b \o <<IF first = "K" THEN "M" ELSE "K">> \o c, <<>>, fc)

InitField ==
  /\ InitCommon
  /\ entry = "extract_field"
  /\ pc = entry
  /\ \/ GenericInputs
     \/ TwoLabelInputs
     \/ MedicaidInputs
     \/ LicenseInputs
     \/ PracticeInputs
     \/ InsuranceInputs
     \/ SectionInputs

\* extract_field(text, field_name, field_config)
CallExtractField ==
  /\ pc = "extract_field"
  /\ result' = ExtractField(doc, field_names[1], config.fields[field_names[1]], insurance_cache)
  /\ insurance_cache' = CacheAfter(doc, field_names[1], insurance_cache)
  /\ calls' = calls + 1
  /\ pc' = "done"
  /\ UNCHANGED <<entry, doc, field_names, config, idx, field_results>>
  /\ UNCHANGED edgeVars

NextField == CallExtractField

SpecField == InitField /\ [][NextField]_vars

\* =====================================================================
\* One process extracting several documents in turn (specification
\* SpecSession): extract_field._insurance_cache is a function attribute and
\* lives as long as the module, so it is carried from one call to the next
\* =====================================================================
SessionPolicies ==
  {<<Policy("1", "f", "x"), Policy("2", "F", "")>>,
   <<Policy("1", "F", "x"), Policy("2", "p", "b")>>,
   <<Policy("1", "p", ""), Policy("2", "F", "x"), Policy("1", "f", "b")>>,
   <<Policy("1", "", "x"), Policy("2", "u", "b")>>}

SessionDocs ==
  {Document(<<"L">>, p) : p \in SessionPolicies}
    \cup {Document(<<"M", "1", "L">>, <<Policy("2", "f", "b")>>), Document(<<"M", "1">>, <<>>)}

SessionFields == InsuranceFields \cup {"ssn"}

SessionInputs ==
  [entry : {"extract_field"}, doc : SessionDocs,
   field_names : {<<f>> : f \in SessionFields}]
    \cup [entry : {"extract_all_fields_from_text"}, doc : SessionDocs,
          field_names : {<<"insurance_carrier_name", "insurance_policy_number">>,
                         <<"ssn", "insurance_current_expiration_date">>}]

InitSession ==
  /\ InitCommon
  /\ \E i \in SessionInputs :
        entry = i.entry /\ doc = i.doc /\ field_names = i.field_names
  /\ config = [loads |-> TRUE, fields |-> GoodConfig(2)]
  /\ pc = entry

\* the process goes on to its next extraction, on any document
StartCall ==
  /\ pc = "done"
  /\ calls < MaxCalls
  /\ \E i \in SessionInputs :
        entry' = i.entry /\ doc' = i.doc /\ field_names' = i.field_names /\ pc' = i.entry
  /\ idx' = 1
  /\ field_results' = <<>>
  /\ result' = NotStarted
  /\ UNCHANGED <<config, calls, insurance_cache>>
  /\ UNCHANGED edgeVars

NextSession ==
  \/ StartCall
  \/ CallExtractField
  \/ LoadConfig
  \/ ExtractNextField
  \/ Aggregate

SpecSession == InitSession /\ [][NextSession]_vars

\* =====================================================================
\* Both entry points: a run of an orchestrator or one call of extract_field
\* =====================================================================
InitAll == Init \/ InitField

NextAll == Next \/ NextField

SpecAll == InitAll /\ [][NextAll]_vars

\* =====================================================================
\* Properties of the orchestrator (specification Spec)
\* =====================================================================
Done == pc = "done"

ReturnedDoc == Done /\ result.kind = "return"

DocumentLevelFailures == {"validation_failed", "read_failed", "config_failed"}

Names == EffectiveNames(field_names)

\* C1 as stated: every returned DocumentExtractionResult has exactly one
\* field result per requested field name, whatever the document.
C1_TotalityAnyDocument ==
  ReturnedDoc => Len(result.value.field_results) = Len(Names)

\* C1 amended: a returned DocumentExtractionResult is either a document-level
\* failure (validation, read or configuration failed: no attempted fields, no
\* field results, a non-empty error list) or holds exactly one field result
\* per requested field name, in request order.
C1_TotalityUnlessDocumentFailure ==
  ReturnedDoc =>
    IF result.value.extraction_method \in DocumentLevelFailures
    THEN /\ result.value.total_fields_attempted = 0
         /\ result.value.field_results = <<>>
         /\ result.value.errors # <<>>
    ELSE /\ Len(result.value.field_results) = Len(Names)
         /\ result.value.total_fields_attempted = Len(Names)
         /\ \A i \in 1..Len(Names) : result.value.field_results[i].field_name = Names[i]

C1_Witness ==
  /\ ReturnedDoc
  /\ result.value.extraction_method = "native_pdf"
  /\ Len(Names) >= 2
  /\ \E i \in 1..Len(Names) : ~config.fields[Names[i]].present
  /\ \E i \in 1..Len(Names) : result.value.field_results[i].extracted_value # None

\* the text was obtained and a document-type check rejected it
GateReportsNotCaqh ==
  /\ entry = "extract_all_fields"
  /\ ValidatePdfFile(doc) \in {"not_caqh", "valid"}
  /\ \/ ~IsCaqhDocument(doc)
     \/ doc.second_read_ok /\ ~ValidateDocument(doc)

\* C2: when the document-type gate reports that the document is not a CAQH
\* document, every requested field gets a "wrong_document" result with no
\* value and confidence 0, and extract_field is never called.
C2_GateShortCircuit ==
  (Done /\ GateReportsNotCaqh) =>
    /\ result.kind = "return"
    /\ calls = 0
    /\ Len(result.value.field_results) = Len(Names)
    /\ \A i \in 1..Len(Names) :
         /\ result.value.field_results[i].extraction_method = "wrong_document"
         /\ result.value.field_results[i].extracted_value = None
         /\ result.value.field_results[i].confidence[1] = 0

\* C3: an exception raised while extracting one field never escapes the
\* orchestrator: the run ends with a returned document result that has a
\* result for every requested field.
C3_FieldExceptionContained ==
  Done => /\ result.kind = "return"
          /\ (result.value.extraction_method \notin DocumentLevelFailures
                => Len(result.value.field_results) = Len(Names))

\* reading the document text raises, in validate_pdf_file or in extract_all_fields
ReadRaises ==
  /\ entry = "extract_all_fields"
  /\ doc.file = "file" /\ doc.size >= MinFileSize
  /\ \/ ~doc.first_read_ok
     \/ IsCaqhDocument(doc) /\ ~doc.second_read_ok

\* C4: when reading the document text raises, extract_all_fields returns a
\* result with no attempted fields, no field results and a non-empty
\* document-level error list; the exception does not propagate.
C4_ReadFailureIsDocumentError ==
  (Done /\ ReadRaises) =>
    /\ result.kind = "return"
    /\ result.value.total_fields_attempted = 0
    /\ result.value.field_results = <<>>
    /\ result.value.errors # <<>>

C4_Witness ==
  /\ ReturnedDoc
  /\ ReadRaises
  /\ result.value.extraction_method = "read_failed"
  /\ Len(Names) >= 1

\* =====================================================================
\* Properties of extract_field (specifications SpecField and SpecAll)
\* =====================================================================
FieldDone == entry = "extract_field" /\ pc = "done"

FieldReturned == FieldDone /\ result.kind = "return"

FieldName == field_names[1]

FieldCfg == config.fields[FieldName]

ConfiguredSection == IF FieldCfg.has_extraction THEN FieldCfg.section ELSE ""

SearchedRange == SectionRange(doc.text, ConfiguredSection)

SearchedText == Slice(doc.text, SearchedRange[1], SearchedRange[2])

FromLabelSearch ==
  /\ FieldReturned
  /\ result.value.extraction_method \in {"label_proximity", "bidirectional_search"}

\* the result carries a value taken from one side of a label match
ValueBesideLabel ==
  /\ FromLabelSearch
  /\ Truthy(result.value.extracted_value)
  /\ result.value.notes.kind = "label"

InUnitInterval(c) == 0 <= c[1] /\ c[1] <= c[2] /\ 0 < c[2]

\* C5: every FieldExtractionResult, whichever path produced it (label
\* search, line fallback, insurance selector, organisation-name extractor,
\* date selector, document gate), has 0.0 <= confidence <= 1.0.
C5_ConfidenceInUnitInterval ==
  /\ \A i \in 1..Len(field_results) : InUnitInterval(field_results[i].confidence)
  /\ FieldReturned => InUnitInterval(result.value.confidence)
  /\ ReturnedDoc /\ entry # "extract_field" =>
       \A i \in 1..Len(result.value.field_results) :
          InUnitInterval(result.value.field_results[i].confidence)

\* a future date right after the label: 0.90 + 0.10 + 0.05 is cut to 1.0
C5_Witness ==
  /\ ValueBesideLabel
  /\ FieldName = "professional_license_expiration_date"
  /\ result.value.notes.dist = 0
  /\ result.value.confidence[1] = result.value.confidence[2]

Occurs(c, s) == \E p \in 1..Len(s) : s[p] = c

NoLabelOccurs ==
  \A i \in 1..Len(FieldCfg.labels) : ~Occurs(FieldCfg.labels[i], SearchedText)

\* C6: if none of the field's configured labels occurs in the search text,
\* extract_field returns (does not raise) a result with no value, confidence
\* 0.0 and an error listing every label tried.
C6_NoLabelGivesAbsence ==
  (FieldDone /\ FieldCfg.has_extraction /\ FieldCfg.labels # <<>> /\ NoLabelOccurs) =>
    /\ result.kind = "return"
    /\ result.value.extracted_value = None
    /\ result.value.confidence[1] = 0
    /\ \E i \in 1..Len(result.value.errors) :
          /\ result.value.errors[i].kind = "labels_not_found"
          /\ result.value.errors[i].labels = FieldCfg.labels

SomeLabelFound ==
  \E i \in 1..Len(FieldCfg.labels) :
     /\ ~LabelIsBlank(FieldCfg.labels[i])
     /\ FindLabel(SearchedText, FieldName, FieldCfg.labels[i]) # -1

\* C7: when a configured label is found in the search text but no value is
\* extracted beside it, the field's result has no value and confidence 0.3.
C7_LabelFoundNoValue ==
  (FromLabelSearch /\ SomeLabelFound /\ result.value.extracted_value = None) =>
    result.value.confidence[1] * 10 = result.value.confidence[2] * 3

\* the label match beside which the returned value was found
UsedLabelStart == FindLabel(SearchedText, FieldName, result.value.notes.label)

UsedLabelEnd == LabelMatchEnd(SearchedText, UsedLabelStart)

\* the first configured label that occurs in the search text: the earlier
\* ones are not found and contribute nothing
FirstFoundLabel ==
  LET found == {i \in 1..Len(FieldCfg.labels) :
                  FindLabel(SearchedText, FieldName, FieldCfg.labels[i]) # -1}
  IN FieldCfg.labels[CHOOSE i \in found : \A j \in found : i <= j]

AfterOfFirstFound ==
  AfterRegion(SearchedText,
              LabelMatchEnd(SearchedText, FindLabel(SearchedText, FieldName, FirstFoundLabel)),
              MaxDistanceOf(FieldCfg))

BeforeOfFirstFound ==
  BeforeRegion(SearchedText, FindLabel(SearchedText, FieldName, FirstFoundLabel),
               MaxDistanceOf(FieldCfg))

NearestAfter == FirstPos(MatchPositions(FieldCfg.pattern, AfterOfFirstFound))

NearestBefore == LastPos(MatchPositions(FieldCfg.pattern, BeforeOfFirstFound))

\* the value pattern matches on both sides of the label, and its nearest
\* match on either side is at the same distance
EquidistantMatches ==
  /\ FieldDone
  /\ FieldCfg.has_extraction
  /\ \A i \in 1..Len(FieldCfg.labels) : ~LabelIsBlank(FieldCfg.labels[i])
  /\ SomeLabelFound
  /\ NearestAfter # -1
  /\ NearestBefore # -1
  /\ NearestAfter = Len(BeforeOfFirstFound) - (NearestBefore + 1)

AfterMatchReturned ==
  /\ ValueBesideLabel
  /\ result.value.notes.label = FirstFoundLabel
  /\ result.value.notes.dir = "after"
  /\ result.value.notes.dist = NearestAfter
  /\ result.value.extracted_value = <<AfterOfFirstFound[NearestAfter + 1]>>

\* C8 as stated: whenever the pattern matches before and after a label at
\* the same distance, extract_field returns the match after the label.
C8_AfterWinsAtEqualDistance ==
  (EquidistantMatches /\ FromLabelSearch) => AfterMatchReturned

AfterCandidateHasNpiContext ==
  LET ls == FindLabel(SearchedText, FieldName, FirstFoundLabel)
      le == LabelMatchEnd(SearchedText, ls)
  IN HasNpiContext(CandidateContext(SearchedText, ls, le,
                     AfterCandidate(AfterOfFirstFound, NearestAfter, MaxDistanceOf(FieldCfg))))

\* C8 amended: the match after the label is returned when the pattern
\* matches at the same distance on both sides, for every field that takes
\* the best-scored candidate: any field but the license expiration date
\* (whose candidates are chosen by date), and medicaid_id provided the
\* NPI-context filter has not discarded the match after the label.
C8_AfterWinsAmongScoredCandidates ==
  (/\ EquidistantMatches
   /\ FromLabelSearch
   /\ FieldName # "professional_license_expiration_date"
   /\ (FieldName = "medicaid_id" => ~AfterCandidateHasNpiContext))
    => AfterMatchReturned

C8_Witness ==
  /\ EquidistantMatches
  /\ AfterMatchReturned
  /\ result.value.notes.dist > 0
  /\ MaxDistanceOf(FieldCfg) > result.value.notes.dist

Contains(s, v) ==
  \E p \in 0..(Len(s) - Len(v)) : SubSeq(s, p + 1, p + Len(v)) = v

SectionHeaderFound ==
  /\ ConfiguredSection # ""
  /\ SectionHeaderPos(doc.text, ConfiguredSection) # -1

\* where the returned value was read, relative to the configured section
ValueInsideSection ==
  CASE result.value.extraction_method = "insurance_extractor" ->
         /\ SearchedRange[1] <= InsuranceSectionPos(doc.text)
         /\ InsuranceSectionPos(doc.text) < SearchedRange[2]
    [] result.value.extraction_method = "pbs_extractor" ->
         Occurs("B", SearchedText) \/ Occurs("b", SearchedText)
    [] OTHER -> Contains(SearchedText, result.value.extracted_value)

\* C9: with a section configured and its header present in the document,
\* the value extract_field returns was read inside that section's text
\* range, never in another section.
C9_ValueFromConfiguredSection ==
  (FieldReturned /\ SectionHeaderFound /\ Truthy(result.value.extracted_value))
    => ValueInsideSection

\* the context window of the returned candidate
ReturnedCandidateContext ==
  CandidateContext(SearchedText, UsedLabelStart, UsedLabelEnd,
                   [value |-> result.value.extracted_value,
                    dir |-> result.value.notes.dir, dist |-> result.value.notes.dist])

\* C10: the value returned for medicaid_id is never a candidate whose
\* context window contains an NPI label.
C10_NpiLabelledNeverReturned ==
  (ValueBesideLabel /\ FieldName = "medicaid_id") => ~HasNpiContext(ReturnedCandidateContext)

\* the better-scored match after the label was discarded for its NPI
\* context and the match before the label returned
C10_Witness ==
  /\ ValueBesideLabel
  /\ FieldName = "medicaid_id"
  /\ result.value.notes.dir = "before"
  /\ NearestAfter # -1
  /\ AfterCandidateHasNpiContext
  /\ AfterConf(NearestAfter, MaxDistanceOf(FieldCfg)) >
       BeforeConf(result.value.notes.dist, MaxDistanceOf(FieldCfg))

\* the candidates _extract_using_label collects beside a label of the field
CandidatesBeside(label) ==
  LET ls == FindLabel(SearchedText, FieldName, label)
      after == AfterRegion(SearchedText, LabelMatchEnd(SearchedText, ls), MaxDistanceOf(FieldCfg))
      before == BeforeRegion(SearchedText, ls, MaxDistanceOf(FieldCfg))
      matched == PatternCandidates(FieldName, FieldCfg.pattern, after, before, MaxDistanceOf(FieldCfg))
  IN IF matched # <<>> THEN matched
     ELSE IF FieldCfg.pattern_required /\ FieldCfg.pattern # "" THEN <<>>
     ELSE FallbackCandidates(FieldName, after, before, MaxDistanceOf(FieldCfg))

NpiKeptBeside(label) ==
  LET ls == FindLabel(SearchedText, FieldName, label)
  IN NpiFiltered(SearchedText, ls, LabelMatchEnd(SearchedText, ls), CandidatesBeside(label))

FoundLabels ==
  {FieldCfg.labels[i] : i \in {j \in 1..Len(FieldCfg.labels) :
       /\ ~LabelIsBlank(FieldCfg.labels[j])
       /\ FindLabel(SearchedText, FieldName, FieldCfg.labels[j]) # -1}}

\* values were found beside a label of medicaid_id, and every one of them
\* was discarded for the NPI label in its context
EveryCandidateNpiLabelled ==
  /\ FromLabelSearch
  /\ FieldName = "medicaid_id"
  /\ FoundLabels # {}
  /\ \A l \in FoundLabels : CandidatesBeside(l) # <<>> /\ NpiKeptBeside(l) = <<>>

\* C11: when every medicaid_id candidate was discarded because its context
\* carries an NPI label, extract_field returns no value together with the
\* specific "all values were NPI-labelled" error, not the generic
\* "could not find any of the labels" result.
C11_NpiRejectionReported ==
  EveryCandidateNpiLabelled =>
    /\ result.value.extracted_value = None
    /\ \E i \in 1..Len(result.value.errors) : result.value.errors[i].kind = "all_npi_labeled"
    /\ \A i \in 1..Len(result.value.errors) : result.value.errors[i].kind # "labels_not_found"

\* ---------------------------------------------------------------------
\* Insurance fields
\* ---------------------------------------------------------------------
InsuranceCall ==
  /\ FieldReturned
  /\ IsInsuranceField(FieldName)
  /\ InsuranceSectionPos(doc.text) # -1

Blocks == doc.policies

DatedBlocks == {i \in 1..Len(Blocks) : ParsesAsDate(<<Blocks[i].expiration>>)}

BlockDays(i) == DaysFromToday(<<Blocks[i].expiration>>)

\* the block with the latest parsed expiration date (the first of them when
\* several blocks carry that date)
LatestBlock ==
  CHOOSE i \in DatedBlocks :
    \A j \in DatedBlocks : BlockDays(i) > BlockDays(j) \/ (BlockDays(i) = BlockDays(j) /\ i <= j)

\* C12: the value returned for any insurance_* field of a document is the
\* value that field has in the policy block with the latest parsed
\* expiration date (none if that block lacks the field): every insurance
\* field of the document comes from that one block, and none from another.
C12_InsuranceFromLatestBlock ==
  /\ (InsuranceCall /\ DatedBlocks # {}) =>
       result.value.extracted_value = PolicyData(Blocks[LatestBlock])[FieldName]
  /\ (entry # "extract_field" /\ InsuranceSectionPos(doc.text) # -1 /\ DatedBlocks # {}) =>
       \A i \in 1..Len(field_results) :
          IsInsuranceField(field_results[i].field_name) =>
            field_results[i].extracted_value =
              PolicyData(Blocks[LatestBlock])[field_results[i].field_name]

\* the latest block is not the first one, an earlier call has filled the
\* cache with another document, and the other blocks hold other values
C12_Witness ==
  /\ InsuranceCall
  /\ Cardinality(DOMAIN insurance_cache) >= 2
  /\ Len(Blocks) = 3
  /\ LatestBlock = 2
  /\ FieldName = "insurance_carrier_name"
  /\ result.value.extracted_value = <<"x">>

\* C13: when the insurance section has policy blocks and none of them has a
\* parseable expiration date (some may have no expiration date at all), the
\* insurance fields returned are those of the first policy block.
C13_FirstBlockWhenNoDate ==
  (InsuranceCall /\ Blocks # <<>> /\ DatedBlocks = {}) =>
    result.value.extracted_value = PolicyData(Blocks[1])[FieldName]

\* ---------------------------------------------------------------------
\* License expiration date
\* ---------------------------------------------------------------------
LicenseCall ==
  /\ FromLabelSearch
  /\ FieldName = "professional_license_expiration_date"
  /\ FoundLabels # {}

LicenseCandidates == CandidatesBeside(FirstFoundLabel)

ParsedDates ==
  LET cands == LicenseCandidates
  IN {cands[i].value : i \in {j \in 1..Len(cands) : ParsesAsDate(cands[j].value)}}

FutureDates == {v \in ParsedDates : DaysFromToday(v) > 0}

\* C14: when two or more candidates beside the label are future dates, the
\* value returned for professional_license_expiration_date is the furthest
\* future one, wherever the candidates stand relative to the label.
C14_FurthestFutureDateWins ==
  LET future == FutureDates
  IN (LicenseCall /\ Cardinality(future) >= 2) =>
       /\ result.value.extracted_value \in future
       /\ \A v \in future :
             DaysFromToday(result.value.extracted_value) >= DaysFromToday(v)

\* C15: when no candidate date is in the future and at least one candidate
\* parses as a date, the result carries the most recent past date, a
\* confidence above 0, no error, and a warning giving the number of days
\* since the license expired.
C15_ExpiredDateIsFlagged ==
  LET parsed == ParsedDates
  IN (LicenseCall /\ parsed # {} /\ \A v \in parsed : DaysFromToday(v) <= 0) =>
       /\ result.value.extracted_value \in parsed
       /\ \A v \in parsed :
             DaysFromToday(result.value.extracted_value) >= DaysFromToday(v)
       /\ result.value.confidence[1] > 0
       /\ result.value.errors = <<>>
       /\ \E i \in 1..Len(result.value.warnings) :
             /\ result.value.warnings[i].kind = "license_expired"
             /\ result.value.warnings[i].days_ago =
                  0 - DaysFromToday(result.value.extracted_value)

\* the older past date stands right before the label, the more recent one
\* further away after it
C15_Witness ==
  /\ LicenseCall
  /\ FutureDates = {}
  /\ ParsedDates = {<<"p">>, <<"q">>}
  /\ BeforeOfFirstFound # <<>>
  /\ BeforeOfFirstFound[Len(BeforeOfFirstFound)] = "q"
  /\ AfterOfFirstFound # <<>>
  /\ AfterOfFirstFound[1] # "p"
  /\ result.value.extracted_value = <<"p">>
  /\ result.value.warnings = <<[kind |-> "license_expired", days_ago |-> 1]>>

\* ---------------------------------------------------------------------
\* Label order
\* ---------------------------------------------------------------------
\* what _extract_using_label gives for the i-th configured label
LabelOutcome(i) ==
  ExtractUsingLabel(SearchedText, FieldName, FieldCfg.labels[i], FieldCfg.pattern,
                    MaxDistanceOf(FieldCfg), FieldCfg)

Yields(out) == out.kind = "return" /\ Truthy(out.value.extracted_value)

YieldingLabels == {i \in 1..Len(FieldCfg.labels) : Yields(LabelOutcome(i))}

\* C16: the result extract_field returns from its label search is the
\* result of the first label, in configuration order, that yields a value;
\* a later label's value is returned only when no earlier label yields one,
\* and no value when no label yields one.
C16_FirstYieldingLabelWins ==
  LET outcomes == [i \in 1..Len(FieldCfg.labels) |-> LabelOutcome(i)]
      yielding == {i \in 1..Len(FieldCfg.labels) : Yields(outcomes[i])}
  IN FromLabelSearch =>
       IF yielding = {}
       THEN result.value.extracted_value = None
       ELSE /\ \E i \in yielding :
                  /\ \A k \in 1..(i - 1) : k \notin yielding
                  /\ result.value = outcomes[i].value
            /\ \A j \in 1..Len(FieldCfg.labels) :
                  (result.value.notes.kind = "label"
                     /\ result.value.notes.label = FieldCfg.labels[j]
                     /\ \A k \in 1..(j - 1) : FieldCfg.labels[k] # FieldCfg.labels[j])
                    => \A k \in 1..(j - 1) : k \notin yielding

\* both labels yield a value, the second one a different value with a
\* higher confidence, and the first label's value is returned
C16_Witness ==
  /\ FromLabelSearch
  /\ YieldingLabels = {1, 2}
  /\ LabelOutcome(1).value.extracted_value # LabelOutcome(2).value.extracted_value
  /\ LabelOutcome(1).value.confidence[1] < LabelOutcome(2).value.confidence[1]
  /\ result.value.notes.label = FieldCfg.labels[1]
  /\ result.value.extracted_value = LabelOutcome(1).value.extracted_value

\* ---------------------------------------------------------------------
\* Mandatory pattern
\* ---------------------------------------------------------------------
PatternMandatory == FieldCfg.has_extraction /\ FieldCfg.pattern_required

\* the value pattern matches beside no label that is found
NoPatternMatchBesideLabels ==
  \A l \in FoundLabels :
     LET ls == FindLabel(SearchedText, FieldName, l)
     IN PatternCandidates(FieldName, FieldCfg.pattern,
          AfterRegion(SearchedText, LabelMatchEnd(SearchedText, ls), MaxDistanceOf(FieldCfg)),
          BeforeRegion(SearchedText, ls, MaxDistanceOf(FieldCfg)),
          MaxDistanceOf(FieldCfg)) = <<>>

\* the required form of a value: the recognised organisation name for
\* practice_location_name, the configured value pattern for any other field
MatchesRequiredPattern(v) ==
  IF FieldName = "practice_location_name" THEN v = PbsName
  ELSE Len(v) = 1 /\ PatternMatches(FieldCfg.pattern, v[1])

\* C17: for a field whose mandatory-pattern flag is set, a label search
\* that finds the label and no pattern match on either side of it returns
\* no value (no line-based candidate stands in), and no value that fails
\* the required pattern is ever returned.
C17_MandatoryPatternNoFallback ==
  /\ (FromLabelSearch /\ PatternMandatory /\ FoundLabels # {} /\ NoPatternMatchBesideLabels)
       => result.value.extracted_value = None
  /\ (FieldReturned /\ PatternMandatory /\ Truthy(result.value.extracted_value))
       => MatchesRequiredPattern(result.value.extracted_value)

\* =====================================================================
\* Properties of a process that extracts several documents (SpecSession)
\* =====================================================================
\* what a process that has extracted nothing before returns for a field
FreshResult(fname) ==
  IF ~config.fields[fname].present THEN NoConfigResult(fname)
  ELSE ExtractField(doc, fname, config.fields[fname], <<>>).value

\* C18: the field results of an extraction depend on the text, the
\* configuration and the reference date alone: whatever documents the
\* process extracted before, every field result (value, confidence, method,
\* errors, warnings, notes) is the one a first extraction of that text gives.
C18_ResultsIndependentOfHistory ==
  /\ FieldReturned => result.value = FreshResult(FieldName)
  /\ entry # "extract_field" =>
       \A i \in 1..Len(field_results) : field_results[i] = FreshResult(Names[i])
  /\ (ReturnedDoc /\ entry # "extract_field") =>
       result.value.field_results = [i \in 1..Len(Names) |-> FreshResult(Names[i])]

\* a run over a document with insurance fields, after other extractions
\* have left another document's policy data in the cache
C18_Witness ==
  /\ ReturnedDoc
  /\ entry = "extract_all_fields_from_text"
  /\ calls > Len(Names)
  /\ Cardinality(DOMAIN insurance_cache) >= 2
  /\ \E i \in 1..Len(Names) :
        /\ IsInsuranceField(Names[i])
        /\ Truthy(result.value.field_results[i].extracted_value)

\* C19: an extraction call leaves no trace: the state kept between calls
\* (the insurance cache attached to extract_field) is after every step what
\* it was before it.
C19_NoCrossCallMemory == [][insurance_cache' = insurance_cache]_vars

\* ---------------------------------------------------------------------
\* Section locator
\* ---------------------------------------------------------------------
\* the outcome of extract_field on a text, with no section configured
OutcomeOn(text) ==
  ExtractField([doc EXCEPT !.text = text], FieldName,
               [FieldCfg EXCEPT !.section = ""], insurance_cache)

\* end of the first occurrence of the section header in the document
HeaderEnd == SectionHeaderPos(doc.text, ConfiguredSection) + 1

\* start of the first major-header line at or after the header's end, or
\* the end of the document
SectionStop ==
  LET stops == {p \in HeaderEnd..(Len(doc.text) - 1) : MajorHeaderAt(doc.text, p)}
  IN IF stops = {} THEN Len(doc.text) ELSE FirstPos(stops)

InFieldLoop ==
  \/ pc = "loop"
  \/ Done /\ result.kind = "raise"
  \/ ReturnedDoc /\ result.value.extraction_method \in {"native_pdf", "ocr", "cached_text"}

Unconfigured(fname) == ~config.fields[fname].present

\* C21: a requested field with no configuration entry gets the no-value
\* result (confidence 0.0, method "no_config", one error), and every other
\* requested field gets the result extract_field gives it on the same text
\* and configuration; a run is only ever cut short by the extract_field call
\* of a field that has a configuration entry.
C21_MissingConfigIsolated ==
  InFieldLoop =>
    /\ \A i \in 1..Len(field_results) :
          IF Unconfigured(Names[i])
          THEN /\ field_results[i] = NoConfigResult(Names[i])
               /\ field_results[i].extracted_value = None
               /\ field_results[i].confidence = <<0, 100>>
               /\ field_results[i].extraction_method = "no_config"
               /\ Len(field_results[i].errors) = 1
          ELSE field_results[i] = FreshResult(Names[i])
    /\ ReturnedDoc => /\ result.value.field_results = field_results
                      /\ Len(field_results) = Len(Names)
    /\ (Done /\ result.kind = "raise") =>
          LET k == Len(field_results) + 1
          IN /\ k <= Len(Names)
             /\ ~Unconfigured(Names[k])
             /\ result = ExtractField(doc, Names[k], config.fields[Names[k]], <<>>)

\* a returned run whose first field has no configuration entry and whose
\* second field was extracted with a value
C21_Witness ==
  /\ ReturnedDoc
  /\ InFieldLoop
  /\ Len(Names) = 2
  /\ Unconfigured(Names[1])
  /\ result.value.field_results[1].extraction_method = "no_config"
  /\ ~Unconfigured(Names[2])
  /\ Truthy(result.value.field_results[2].extracted_value)
  /\ result.value.fields_extracted = 1

\* =====================================================================
\* pdf_reader.py: rebuilding the lines of a page from positioned words
\* (_extract_with_pdfplumber lines 141-195, extract_with_ocr lines 285-376)
\* and read_pdf_text (lines 41-122)
\* =====================================================================
MaxWords == 2

\* Y_TOLERANCE of the native and of the OCR reconstruction, in pixels
NativeYTolerance == 5

OcrYTolerance == 8

\* a gap wider than this many pixels puts a blank between two words
WordGap == 3

\* a gap wider than this puts two blanks (column separation)
NativeColumnGap == 20

OcrColumnGap == 40

YTolerance(method) == IF method = "ocr" THEN OcrYTolerance ELSE NativeYTolerance

ColumnGap(method) == IF method = "ocr" THEN OcrColumnGap ELSE NativeColumnGap

IsLower(c) == c \in {"x", "b"}

\* Python round(n / d) for integers n >= 0, d > 0: halves go to the even side
RoundHalfEven(n, d) ==
  LET q == n \div d
      r == n % d
  IN IF 2 * r < d THEN q
     ELSE IF 2 * r > d THEN q + 1
     ELSE IF q % 2 = 0 THEN q ELSE q + 1

\* row_key = round(top / Y_TOLERANCE) * Y_TOLERANCE
RowKey(top, tol) == RoundHalfEven(top, tol) * tol

\* a word of a page: pdfplumber's text/top/x0/x1, Tesseract's
\* text/top/left/width/conf
Word(text, top, x0, width, conf) ==
  [text |-> text, top |-> top, x0 |-> x0, x1 |-> x0 + width, conf |-> conf]

\* the words that take part (positions in the page's word list): OCR drops
\* words that are blank after strip() and words with a negative confidence
KeptWords(words, method) ==
  {i \in 1..Len(words) :
     method = "ocr" => (Strip(words[i].text) # <<>> /\ words[i].conf >= 0)}

RECURSIVE SortedKeys(_)
SortedKeys(K) ==
  IF K = {} THEN <<>>
  ELSE LET k == CHOOSE a \in K : \A b \in K : a <= b
       IN <<k>> \o SortedKeys(K \ {k})

RECURSIVE IndicesInOrder(_, _)
IndicesInOrder(S, n) ==
  IF n = 0 THEN <<>>
  ELSE IndicesInOrder(S, n - 1) \o (IF n \in S THEN <<n>> ELSE <<>>)

\* the rows of a page, top to bottom, each the positions of its words left
\* to right (sorted(rows.items()) / sorted(rows.keys()), then the stable
\* sort of a row by x0)
PageRows(words, method) ==
  LET tol == YTolerance(method)
      kept == KeptWords(words, method)
      keys == SortedKeys({RowKey(words[i].top, tol) : i \in kept})
      Row(k) == LET members == IndicesInOrder({i \in kept : RowKey(words[i].top, tol) = k},
                                              Len(words))
                    before == [a \in 1..Len(members) |-> [b \in 1..Len(members) |->
                                 words[members[a]].x0 < words[members[b]].x0]]
                IN SortStable(members, before)
  IN [r \in 1..Len(keys) |-> Row(keys[r])]

\* OCR post-processing of a word: a blank before an upper-case letter that
\* follows a lower-case one
RECURSIVE SplitCamelCase(_, _)
SplitCamelCase(word, j) ==
  IF j > Len(word) THEN <<>>
  ELSE (IF j > 1 /\ IsLower(word[j - 1]) /\ IsUpper(word[j]) THEN <<" ", word[j]>>
        ELSE <<word[j]>>) \o SplitCamelCase(word, j + 1)

WordText(w, method) ==
  IF method = "ocr" THEN SplitCamelCase(Strip(w.text), 1) ELSE w.text

\* the text of one row: the words with no, one or two blanks between them
RECURSIVE LineText(_, _, _, _)
LineText(words, row, method, j) ==
  IF j > Len(row) THEN <<>>
  ELSE LET w == words[row[j]]
           gap == IF j = 1 THEN 0 ELSE w.x0 - words[row[j - 1]].x1
           blanks == IF j = 1 \/ gap <= WordGap THEN <<>>
                     ELSE IF gap > ColumnGap(method) THEN <<" ", " ">> ELSE <<" ">>
       IN blanks \o WordText(w, method) \o LineText(words, row, method, j + 1)

\* page_lines: the rows whose text is not blank
PageLines(words, method) ==
  LET rows == PageRows(words, method)
      texts == [r \in 1..Len(rows) |-> LineText(words, rows[r], method, 1)]
  IN SelectSeq(texts, LAMBDA t : Strip(t) # <<>>)

RECURSIVE JoinLines(_)
JoinLines(lines) ==
  IF lines = <<>> THEN <<>>
  ELSE IF Len(lines) = 1 THEN lines[1]
  ELSE lines[1] \o <<NL>> \o JoinLines(Tail(lines))

\* the page-boundary markers "--- Page N ---" and "--- Page N (OCR) ---",
\* each one character of the text
NativeMarker == <<"--- Page 1 ---", "--- Page 2 ---", "--- Page 3 ---", "--- Page 4 ---">>

OcrMarker ==
  <<"--- Page 1 (OCR) ---", "--- Page 2 (OCR) ---", "--- Page 3 (OCR) ---",
    "--- Page 4 (OCR) ---">>

PageHeader(n, method) ==
  <<NL, IF method = "ocr" THEN OcrMarker[n] ELSE NativeMarker[n], NL>>

\* _extract_with_pdfplumber / the loop of extract_with_ocr over the pages
\* from page n on: a page with lines contributes its header and its lines
RECURSIVE ExtractPages(_, _, _)
ExtractPages(pages, method, n) ==
  IF n > Len(pages) THEN <<>>
  ELSE (IF PageLines(pages[n], method) = <<>> THEN <<>>
        ELSE PageHeader(n, method) \o JoinLines(PageLines(pages[n], method)))
       \o ExtractPages(pages, method, n + 1)

\* _extract_with_pypdf2: page.extract_text() of each page, kept when truthy
RECURSIVE ExtractWithPypdf2(_, _)
ExtractWithPypdf2(page_texts, n) ==
  IF n > Len(page_texts) THEN <<>>
  ELSE (IF page_texts[n] = <<>> THEN <<>>
        ELSE PageHeader(n, "pypdf2") \o page_texts[n])
       \o ExtractWithPypdf2(page_texts, n + 1)

\* what a strategy produces on the file: its text, or the exception
StrategyOutcome(d, strategy) ==
  IF strategy = "pdfplumber"
  THEN IF d.pdfplumber.raises THEN Raised("Exception")
       ELSE Returned(ExtractPages(d.pdfplumber.pages, "pdfplumber", 1))
  ELSE IF strategy = "pypdf2"
  THEN IF d.pypdf2.raises THEN Raised("Exception")
       ELSE Returned(ExtractWithPypdf2(d.pypdf2.pages, 1))
  ELSE IF d.ocr.raises THEN Raised("PDFReadError")
       ELSE Returned(ExtractPages(d.ocr.pages, "ocr", 1))

\* a strategy's text is used whatever it holds
IsUsable_AnyText(text) == TRUE

\* text and len(text.strip()) > 0
IsUsable(text) == text # <<>> /\ Strip(text) # <<>>

\* the locals pdfplumber_error / pypdf2_error / ocr_error and *_text_length
Attempt(strategy, out) ==
  [strategy |-> strategy, raised |-> out.kind = "raise",
   text_length |-> IF out.kind = "raise" THEN 0 ELSE Len(out.value)]

\* lines 57-63
CheckPath ==
  /\ pc = "read_pdf_text"
  /\ IF doc.file = "missing" THEN Finish(Raised("FileNotFoundError"))
     ELSE IF doc.file = "directory" THEN Finish(Raised("PDFReadError"))
     ELSE pc' = "pdfplumber" /\ UNCHANGED result
  /\ UNCHANGED <<entry, doc, field_names, config, idx, field_results, calls, insurance_cache>>
  /\ UNCHANGED edgeVars

\* one strategy: return its text when usable, else note what happened and
\* go on to the next strategy (to the final raise after the last one)
TryStrategy(strategy, next) ==
  /\ LET out == StrategyOutcome(doc, strategy)
     IN /\ attempts' = Append(attempts, Attempt(strategy, out))
        /\ IF out.kind = "return" /\ IsUsable(out.value)
           THEN Finish(Returned(out.value))
           ELSE pc' = next /\ UNCHANGED result
  /\ UNCHANGED <<entry, doc, field_names, config, idx, field_results, calls, insurance_cache>>
  /\ UNCHANGED <<history, now, cache_files, metadata, pdf_files, cached_for, process_result>>

\* lines 72-82
TryPdfplumber ==
  /\ pc = "pdfplumber"
  /\ TryStrategy("pdfplumber", "pypdf2")

\* lines 84-94
TryPypdf2 ==
  /\ pc = "pypdf2"
  /\ TryStrategy("pypdf2", IF doc.ocr_available THEN "ocr" ELSE "failed")

\* lines 96-104
TryOcr ==
  /\ pc = "ocr"
  /\ TryStrategy("ocr", "failed")

\* lines 106-122
RaiseReadError ==
  /\ pc = "failed"
  /\ Finish(Raised("PDFReadError"))
  /\ UNCHANGED <<entry, doc, field_names, config, idx, field_results, calls, insurance_cache>>
  /\ UNCHANGED edgeVars

\* the pages pdfplumber and Tesseract may see, the page texts of PyPDF2
ReaderPages ==
  {<<>>, <<<<>>>>, <<<<Word(<<"M">>, 2, 0, 5, 96)>>>>,
   <<<<>>, <<Word(<<"M">>, 2, 0, 5, 96), Word(<<"1">>, 3, 8, 5, 96)>>>>,
   <<<<Word(<<" ">>, 2, 0, 5, 96), Word(<<"M">>, 3, 0, 5, -1)>>>>}

ReaderPageTexts ==
  {<<>>, <<<<>>>>, <<<<" ">>>>, <<<<"M", "1">>>>, <<<<>>, <<"M", NL>>>>}

\* a strategy raises, or reads these pages
Reading(P) == {[raises |-> TRUE, pages |-> <<>>]} \cup [raises : {FALSE}, pages : P]

PdfFiles ==
  [file : {"missing", "directory", "file"},
   pdfplumber : Reading(ReaderPages),
   pypdf2 : Reading(ReaderPageTexts),
   ocr : Reading(ReaderPages),
   ocr_available : BOOLEAN]

InitRead ==
  /\ InitCommon
  /\ entry = "read_pdf_text"
  /\ pc = entry
  /\ doc \in PdfFiles
  /\ field_names = <<>>
  /\ config = None

NextRead ==
  \/ CheckPath
  \/ TryPdfplumber
  \/ TryPypdf2
  \/ TryOcr
  \/ RaiseReadError

SpecRead == InitRead /\ [][NextRead]_vars

\* ---------------------------------------------------------------------
\* Properties of read_pdf_text (specification SpecRead)
\* ---------------------------------------------------------------------
ReadDone == entry = "read_pdf_text" /\ pc = "done"

StrategyOrder == <<"pdfplumber", "pypdf2", "ocr">>

\* some character of the text is not whitespace
NonBlank(text) == \E i \in 1..Len(text) : ~IsSpace(text[i])

\* the strategy raises on this file or gives no non-blank text
YieldsNothing(strategy) ==
  LET out == StrategyOutcome(doc, strategy)
  IN out.kind = "raise" \/ ~NonBlank(out.value)

AvailableStrategies == IF doc.ocr_available THEN 3 ELSE 2

\* C22: on a file, read_pdf_text tries pdfplumber, then PyPDF2, then OCR (when
\* installed), in that order, going on to the next strategy only when the
\* one before raised or gave no non-blank text; it returns the text of the
\* first strategy that gives non-blank text and raises PDFReadError when
\* none does, so the text it returns is never empty or whitespace only.
C22_StrategiesInOrder ==
  /\ entry = "read_pdf_text" =>
       /\ Len(attempts) <= AvailableStrategies
       /\ \A i \in 1..Len(attempts) :
            /\ attempts[i].strategy = StrategyOrder[i]
            /\ i < Len(attempts) => YieldsNothing(StrategyOrder[i])
  /\ (ReadDone /\ result.kind = "return") =>
       /\ NonBlank(result.value)
       /\ Len(attempts) >= 1
       /\ result = StrategyOutcome(doc, StrategyOrder[Len(attempts)])
  /\ (ReadDone /\ result.kind = "raise" /\ doc.file = "file") =>
       /\ result.value = "PDFReadError"
       /\ Len(attempts) = AvailableStrategies
       /\ \A i \in 1..AvailableStrategies : YieldsNothing(StrategyOrder[i])
  /\ (ReadDone /\ doc.file # "file") => result.kind = "raise" /\ attempts = <<>>

\* pdfplumber raised, PyPDF2 found no text, and the OCR text was returned
C22_Witness ==
  /\ ReadDone
  /\ result.kind = "return"
  /\ Len(attempts) = 3
  /\ attempts[1].raised
  /\ ~attempts[2].raised /\ attempts[2].text_length = 0
  /\ result.value[2] = OcrMarker[1]

\* =====================================================================
\* The reconstruction of one page (specification SpecLayout)
\* =====================================================================
LayoutWords ==
  {Word(t.text, top, x0, 5, t.conf) :
     t \in {[text |-> <<"M">>, conf |-> 96], [text |-> <<"x", "M">>, conf |-> 96],
            [text |-> <<" ">>, conf |-> 96], [text |-> <<"1">>, conf |-> -1]},
     top \in {2, 3, 4, 12}, x0 \in {0, 8, 50}}

InitLayout ==
  /\ InitCommon
  /\ entry = "reconstruct_page"
  /\ pc = entry
  /\ doc \in [words : Seqs(LayoutWords, MaxWords), method : {"pdfplumber", "ocr"}]
  /\ field_names = <<>>
  /\ config = None

\* the body of the loop over the pages: the rows of the page and its lines
ReconstructPage ==
  /\ pc = "reconstruct_page"
  /\ Finish(Returned([rows |-> PageRows(doc.words, doc.method),
                      lines |-> PageLines(doc.words, doc.method)]))
  /\ UNCHANGED <<entry, doc, field_names, config, idx, field_results, calls, insurance_cache>>
  /\ UNCHANGED edgeVars

NextLayout == ReconstructPage

SpecLayout == InitLayout /\ [][NextLayout]_vars

\* ---------------------------------------------------------------------
\* Properties of the reconstruction
\* ---------------------------------------------------------------------
PageDone == entry = "reconstruct_page" /\ pc = "done"

\* the row of the result that word i was placed on
RowOf(i) == CHOOSE r \in 1..Len(result.value.rows) :
              \E j \in 1..Len(result.value.rows[r]) : result.value.rows[r][j] = i

Distance(a, b) == IF a >= b THEN a - b ELSE b - a

\* C27: two words of a page whose top coordinates differ by less than the
\* vertical tolerance (5 px native, 8 px OCR) are placed on the same line;
\* the lines come in increasing order of their bucket and the words of a
\* line in increasing order of their left edge.
C27_CloseWordsShareLine ==
  PageDone =>
    LET rows == result.value.rows
        kept == KeptWords(doc.words, doc.method)
        tol == YTolerance(doc.method)
    IN /\ \A i, j \in kept :
            Distance(doc.words[i].top, doc.words[j].top) < tol => RowOf(i) = RowOf(j)
       /\ \A r \in 1..Len(rows) : \A a, b \in 1..Len(rows[r]) :
            a < b => doc.words[rows[r][a]].x0 <= doc.words[rows[r][b]].x0
       /\ \A r, q \in 1..Len(rows) :
            r < q => RowKey(doc.words[rows[r][1]].top, tol)
                       < RowKey(doc.words[rows[q][1]].top, tol)

\* =====================================================================
\* The extraction method reported by extract_all_fields (specification Spec)
\* =====================================================================
\* C28: for a document that passed the gate, extract_all_fields reports the
\* method "ocr" exactly when the text holds an OCR page marker
\* "--- Page N (OCR) ---", and "native_pdf" otherwise.
C28_MethodFromOcrMarker ==
  (ReturnedDoc /\ entry = "extract_all_fields"
     /\ result.value.extraction_method \in {"native_pdf", "ocr"}) =>
    (result.value.extraction_method = "ocr" <=> doc.ocr_marker)

\* =====================================================================
\* edge_cases/duplicate_detector.py: DuplicateDetector (specification
\* SpecDetector).  Time is counted in minutes; now is what datetime.now()
\* returns.  _save_history also writes the history to the JSON file, which
\* this detector does not read again.
\* =====================================================================
MaxHistory == 2
MaxClock == 23

\* time_window_minutes, the default of check_for_duplicate
WindowMinutes == 15

\* timedelta(days=30) in _save_history, in minutes
RetentionMinutes == 43200

SubmissionRecord(user_name, filename, submission_time) ==
  [user_name |-> user_name, filename |-> filename, submission_time |-> submission_time]

DuplicateDetectionResult(is_duplicate, original, minutes, recommendation) ==
  [is_duplicate |-> is_duplicate, original_submission |-> original,
   time_difference_minutes |-> minutes, recommendation |-> recommendation]

\* the positions of the submissions of this user with exactly this filename
MatchingSubmissions(h, user_name, filename) ==
  {i \in 1..Len(h) : h[i].user_name = user_name /\ h[i].filename = filename}

DuplicateOutcome(h, t, i) ==
  IF i = -1 THEN DuplicateDetectionResult(FALSE, None, None, "process_normally")
  ELSE IF t - h[i].submission_time <= WindowMinutes
  THEN DuplicateDetectionResult(TRUE, h[i], t - h[i].submission_time, "reject_duplicate")
  ELSE DuplicateDetectionResult(FALSE, h[i], t - h[i].submission_time, "process_normally")

\* check_for_duplicate that looks at the oldest matching submission
DuplicateCheck_OldestFirst(h, t, user_name, filename) ==
  DuplicateOutcome(h, t, FirstPos(MatchingSubmissions(h, user_name, filename)))

\* check_for_duplicate (lines 109-172): the most recent matching submission
\* decides
DuplicateCheck(h, t, user_name, filename) ==
  DuplicateOutcome(h, t, LastPos(MatchingSubmissions(h, user_name, filename)))

\* _save_history (lines 90-97): only the last 30 days are kept
SaveHistory(h, t) ==
  SelectSeq(h, LAMBDA rec : rec.submission_time > t - RetentionMinutes)

Users == {"u", "v"}

Filenames == {"a.pdf", "A.pdf"}

\* the clock moves on between two calls (followed for MaxClock minutes
\* after the detector was built and after the retention period has passed)
Ticks == {7, 8, RetentionMinutes}

otherVars == <<field_names, config, idx, field_results, calls, insurance_cache, attempts,
               cache_files, metadata, pdf_files, cached_for, process_result>>

InitDetector ==
  /\ InitCommon
  /\ entry = "DuplicateDetector"
  /\ pc = "constructed"
  /\ doc = None
  /\ field_names = <<>>
  /\ config = None

\* record_submission (lines 174-209)
RecordSubmission ==
  /\ entry = "DuplicateDetector"
  /\ Len(history) < MaxHistory
  /\ \E u \in Users, f \in Filenames :
        /\ doc' = [user_name |-> u, filename |-> f]
        /\ history' = SaveHistory(Append(history, SubmissionRecord(u, f, now)), now)
  /\ pc' = "recorded"
  /\ result' = Returned(None)
  /\ UNCHANGED <<entry, now>>
  /\ UNCHANGED otherVars

\* check_for_duplicate(user_name, filename, file_path)
CheckForDuplicate ==
  /\ entry = "DuplicateDetector"
  /\ \E u \in Users, f \in Filenames :
        /\ doc' = [user_name |-> u, filename |-> f]
        /\ result' = Returned(DuplicateCheck(history, now, u, f))
  /\ pc' = "checked"
  /\ UNCHANGED <<entry, history, now>>
  /\ UNCHANGED otherVars

Tick ==
  /\ entry = "DuplicateDetector"
  /\ \E d \in Ticks :
        /\ now + d <= RetentionMinutes + MaxClock
        /\ (now + d) % RetentionMinutes <= MaxClock
        /\ now' = now + d
  /\ pc' = "waiting"
  /\ UNCHANGED <<entry, doc, result, history>>
  /\ UNCHANGED otherVars

NextDetector ==
  \/ RecordSubmission
  \/ CheckForDuplicate
  \/ Tick

SpecDetector == InitDetector /\ [][NextDetector]_vars

\* ---------------------------------------------------------------------
\* Properties of the duplicate detector
\* ---------------------------------------------------------------------
\* check_for_duplicate has just returned
Checked == entry = "DuplicateDetector" /\ pc = "checked"

\* a recorded submission of the same user and the same filename was made
\* within the last 15 minutes
RecentSameSubmission ==
  \E i \in 1..Len(history) :
     /\ history[i].user_name = doc.user_name
     /\ history[i].filename = doc.filename
     /\ now - history[i].submission_time <= WindowMinutes

\* C23: after any sequence of record_submission and check_for_duplicate
\* calls, check_for_duplicate(user, filename) reports is_duplicate true with
\* the recommendation "reject_duplicate" exactly when some recorded
\* submission of the same user with exactly the same filename was made
\* within the last 15 minutes, and is_duplicate false with
\* "process_normally" otherwise.
C23_DuplicateWithinWindow ==
  Checked =>
    IF RecentSameSubmission
    THEN /\ result.value.is_duplicate
         /\ result.value.recommendation = "reject_duplicate"
    ELSE /\ ~result.value.is_duplicate
         /\ result.value.recommendation = "process_normally"

\* a duplicate found exactly 15 minutes after the second of two submissions
\* of the same file, the first of them outside the window
C23_Witness ==
  /\ Checked
  /\ Len(history) = 2
  /\ \A i \in 1..2 : history[i].user_name = doc.user_name /\ history[i].filename = doc.filename
  /\ now - history[1].submission_time > WindowMinutes
  /\ now - history[2].submission_time = WindowMinutes
  /\ result.value.is_duplicate
  /\ result.value.original_submission = history[2]

\* =====================================================================
\* validation/validation_engine.py, confidence_scorer.py and the
\* validators of the five critical fields (specification SpecValidation).
\* An extracted value is described by its kind:
\*   "none"         no value (None)
\*   "blank"        a string of two or more whitespace characters
\*   "good"         a value its validator accepts without a warning
\*   "single"       one non-digit character
\*   "digits"       a run of digits too short for an SSN or an NPI
\*   "bad"          text its validator rejects (wrong format, a page marker
\*                  in a practice name, an unparseable date with slashes)
\*   "expired"      a date in the past
\*   "soon"         a date within the next 30 days
\* A confidence is an exact fraction <<num, den>>, den a multiple of 100.
\* =====================================================================
MaxResults == 2

\* ConfidenceScorer.HIGH_CONFIDENCE_THRESHOLD and MEDIUM_CONFIDENCE_THRESHOLD,
\* in hundredths
HighConfidenceThreshold == 90

MediumConfidenceThreshold == 70

CriticalFields ==
  {"medicaid_id", "ssn", "individual_npi", "practice_location_name",
   "professional_license_expiration_date"}

\* fields with an entry in validation_rules.yaml but no validator
RuledFields == InsuranceFields

Times(c, n, d) == <<c[1] * n, c[2] * d>>

\* min(1.0, max(0.0, c + k/100))
PlusHundredths(c, k) ==
  LET n == c[1] + k * (c[2] \div 100)
  IN <<Max(0, Min(n, c[2])), c[2]>>

\* c < k/100
BelowHundredths(c, k) == c[1] * 100 < k * c[2]

\* round(c, 2) in hundredths; a value exactly between two hundredths goes
\* where its floating-point representation falls (up says which way)
Round2(c, up) ==
  LET q == (c[1] * 100) \div c[2]
      r == (c[1] * 100) % c[2]
  IN IF 2 * r < c[2] THEN q
     ELSE IF 2 * r > c[2] THEN q + 1
     ELSE IF up THEN q + 1 ELSE q

\* the validators of field_validators.py: is the value accepted, and does
\* the result carry errors and warnings; every critical field is required
IsAccepted(fname, kind) ==
  IF fname = "medicaid_id" THEN kind \notin {"none", "blank"}
  ELSE IF fname = "practice_location_name" THEN kind \in {"good", "single", "digits"}
  ELSE IF fname = "professional_license_expiration_date" THEN kind \in {"good", "soon"}
  ELSE kind = "good"

HasWarnings(fname, kind) ==
  \/ fname = "practice_location_name" /\ kind \in {"single", "digits"}
  \/ fname = "professional_license_expiration_date" /\ kind = "soon"

\* _infer_field_type
InferFieldType(fname) ==
  IF fname \in {"professional_license_expiration_date", "insurance_current_expiration_date"}
  THEN "date"
  ELSE IF fname = "ssn" THEN "ssn"
  ELSE IF fname = "individual_npi" THEN "npi"
  ELSE "text"

\* adjust_for_validation (lines 88-132)
AdjustForValidation(c, passed, has_errors, has_warnings, is_required) ==
  IF passed
  THEN IF has_warnings THEN PlusHundredths(PlusHundredths(c, 5), -2)
       ELSE PlusHundredths(c, 5)
  ELSE LET lowered == IF is_required THEN Times(c, 3, 10) ELSE Times(c, 1, 2)
       IN IF has_errors THEN Times(lowered, 9, 10) ELSE lowered

\* adjust_for_field_characteristics (lines 134-181); the value is the one the
\* validator returns (stripped, normalised or formatted)
AdjustForFieldCharacteristics(c, fname, kind) ==
  LET penalised == IF fname \in CriticalFields /\ BelowHundredths(c, HighConfidenceThreshold)
                   THEN Times(c, 19, 20) ELSE c
      type == InferFieldType(fname)
  IN IF kind = "none" THEN penalised
     ELSE IF type = "text"
     THEN IF kind = "single" THEN Times(penalised, 7, 10) ELSE penalised
     ELSE IF type = "date"
     THEN IF kind \in {"good", "soon", "expired", "bad"} THEN PlusHundredths(penalised, 2)
          ELSE penalised
     ELSE IF kind \in {"good", "digits"} THEN PlusHundredths(penalised, 3) ELSE penalised

\* calculate_final_confidence (lines 183-224), in hundredths
FinalConfidence(fname, kind, c, up) ==
  LET passed == IsAccepted(fname, kind)
  IN Round2(AdjustForFieldCharacteristics(
              AdjustForValidation(c, passed, ~passed, HasWarnings(fname, kind), TRUE),
              fname, kind), up)

FieldValidationResult(fname, kind, is_valid, is_required, confidence, errors, warnings) ==
  [field_name |-> fname, extracted_value |-> kind, is_valid |-> is_valid,
   is_required |-> is_required, confidence |-> confidence, errors |-> errors,
   warnings |-> warnings]

\* validate_field (lines 79-147) on one extraction result
ValidateField(fr, up) ==
  IF fr.field_name \in CriticalFields
  THEN LET passed == IsAccepted(fr.field_name, fr.extracted_value)
       IN FieldValidationResult(fr.field_name, fr.extracted_value, passed, TRUE,
            FinalConfidence(fr.field_name, fr.extracted_value, fr.confidence, up),
            IF passed THEN <<>> ELSE <<[field |-> fr.field_name, kind |-> fr.extracted_value]>>,
            IF HasWarnings(fr.field_name, fr.extracted_value) THEN <<"warning">> ELSE <<>>)
  ELSE IF fr.field_name \in RuledFields
  THEN FieldValidationResult(fr.field_name, fr.extracted_value, TRUE, FALSE, 50, <<>>,
                             <<"not_yet_implemented">>)
  ELSE FieldValidationResult(fr.field_name, fr.extracted_value, TRUE, FALSE, 30, <<>>,
                             <<"no_validation_rule">>)

IsFailure(r) == ~r.is_valid \/ r.extracted_value = "none"

RECURSIVE ErrorsOf(_)
ErrorsOf(failures) ==
  IF failures = <<>> THEN <<>>
  ELSE (IF Head(failures).errors # <<>> THEN Head(failures).errors
        ELSE <<[field |-> Head(failures).field_name, kind |-> "missing_or_invalid"]>>)
       \o ErrorsOf(Tail(failures))

Verdict(status, reasons) == [overall_status |-> status, rejection_reasons |-> reasons]

\* _determine_document_status (lines 246-347)
DetermineDocumentStatus(frs, required_fields_missing, low_confidence_fields, is_caqh) ==
  LET failures == SelectSeq(frs, LAMBDA r : r.field_name \in CriticalFields /\ IsFailure(r))
      critical == SelectSeq(frs, LAMBDA r : r.field_name \in CriticalFields)
  IN IF ~is_caqh THEN Verdict("AI_REJECTED", <<"not_a_caqh_document">>)
     ELSE IF low_confidence_fields # <<>> THEN Verdict("NEEDS_HUMAN_REVIEW", <<>>)
     ELSE IF failures # <<>> THEN Verdict("AI_REJECTED", ErrorsOf(failures))
     ELSE IF /\ critical # <<>>
             /\ \A i \in 1..Len(critical) :
                  critical[i].confidence >= HighConfidenceThreshold /\ critical[i].is_valid
     THEN Verdict("AI_REVIEWED_LOOKS_GOOD", <<>>)
     ELSE IF required_fields_missing # <<>> \/ \E i \in 1..Len(frs) : ~frs[i].is_valid
     THEN Verdict("NEEDS_HUMAN_REVIEW", <<>>)
     ELSE Verdict("AI_REVIEWED_LOOKS_GOOD", <<>>)

\* validate_document (lines 149-244)
DocumentValidationResult(extraction, up) ==
  LET frs == [i \in 1..Len(extraction.field_results) |->
                ValidateField(extraction.field_results[i], up[i])]
      required_fields_missing == SelectSeq(frs, LAMBDA r : r.is_required /\ IsFailure(r))
      low_confidence_fields ==
        SelectSeq(frs, LAMBDA r : r.confidence < MediumConfidenceThreshold)
      verdict == DetermineDocumentStatus(frs, required_fields_missing, low_confidence_fields,
                                         extraction.is_caqh_document)
  IN [overall_status |-> verdict.overall_status,
      rejection_reasons |-> verdict.rejection_reasons,
      field_results |-> frs,
      required_fields_missing |->
        [i \in 1..Len(required_fields_missing) |-> required_fields_missing[i].field_name],
      low_confidence_fields |->
        [i \in 1..Len(low_confidence_fields) |-> low_confidence_fields[i].field_name]]

\* the extraction results handed to the engine
ExtractedFields ==
  [field_name : {"medicaid_id", "ssn"},
   extracted_value : {"none", "good", "single", "digits"},
   confidence : {<<0, 100>>, <<80, 100>>, <<100, 100>>}]
  \cup [field_name : {"professional_license_expiration_date"},
        extracted_value : {"blank", "good", "soon", "expired", "bad"},
        confidence : {<<65, 100>>, <<100, 100>>}]
  \cup [field_name : {"insurance_policy_number"}, extracted_value : {"good"},
        confidence : {<<100, 100>>}]

InitValidation ==
  /\ InitCommon
  /\ entry = "validate_document"
  /\ pc = entry
  /\ doc \in [is_caqh_document : BOOLEAN, field_results : Seqs(ExtractedFields, MaxResults)]
  /\ field_names = <<>>
  /\ config = None

ValidateDocumentRun ==
  /\ pc = "validate_document"
  /\ \E up \in [1..Len(doc.field_results) -> BOOLEAN] :
        Finish(Returned(DocumentValidationResult(doc, up)))
  /\ UNCHANGED <<entry, doc, field_names, config, idx, field_results, calls, insurance_cache>>
  /\ UNCHANGED edgeVars

NextValidation == ValidateDocumentRun

SpecValidation == InitValidation /\ [][NextValidation]_vars

\* ---------------------------------------------------------------------
\* Properties of the validation engine
\* ---------------------------------------------------------------------
Validated == entry = "validate_document" /\ pc = "done"

\* the critical fields among the validated results that are missing or
\* failed their validator
CriticalFailures ==
  {i \in 1..Len(result.value.field_results) :
     /\ result.value.field_results[i].field_name \in CriticalFields
     /\ IsFailure(result.value.field_results[i])}

\* C24: for a document flagged as a CAQH document, whenever some critical
\* field is missing or fails validation, validate_document returns the
\* overall status AI_REJECTED with that field's errors among the rejection
\* reasons.
C24_CriticalFailureRejects ==
  (Validated /\ doc.is_caqh_document /\ CriticalFailures # {}) =>
    /\ result.value.overall_status = "AI_REJECTED"
    /\ \A i \in CriticalFailures :
         \A e \in 1..Len(result.value.field_results[i].errors) :
           \E k \in 1..Len(result.value.rejection_reasons) :
             result.value.rejection_reasons[k] = result.value.field_results[i].errors[e]

\* C25: the status is AI_REVIEWED_LOOKS_GOOD only if the document is a CAQH
\* document and every critical field in the results is valid with a
\* confidence of at least 0.90; in every other case it is NEEDS_HUMAN_REVIEW
\* or AI_REJECTED.
C25_LooksGoodNeedsHighConfidence ==
  Validated =>
    /\ result.value.overall_status
         \in {"AI_REVIEWED_LOOKS_GOOD", "NEEDS_HUMAN_REVIEW", "AI_REJECTED"}
    /\ result.value.overall_status = "AI_REVIEWED_LOOKS_GOOD" =>
         /\ doc.is_caqh_document
         /\ \A i \in 1..Len(result.value.field_results) :
              result.value.field_results[i].field_name \in CriticalFields =>
                /\ result.value.field_results[i].is_valid
                /\ result.value.field_results[i].confidence >= HighConfidenceThreshold

\* =====================================================================
\* The line-based fallback of _extract_using_label (SpecField)
\* =====================================================================
\* the returned value was taken beside a label where the value pattern
\* matched in neither window, so it is a line the fallback collected
FromLineFallback ==
  /\ ValueBesideLabel
  /\ LET ls == FindLabel(SearchedText, FieldName, result.value.notes.label)
     IN PatternCandidates(FieldName, FieldCfg.pattern,
          AfterRegion(SearchedText, LabelMatchEnd(SearchedText, ls), MaxDistanceOf(FieldCfg)),
          BeforeRegion(SearchedText, ls, MaxDistanceOf(FieldCfg)),
          MaxDistanceOf(FieldCfg)) = <<>>

\* C26: a result produced by the line-based fallback has a final confidence
\* of at most 0.75 less 0.15 for every line between the label and the value;
\* the 0.05 pattern bonus is not part of it, since no pattern matched.
C26_FallbackConfidenceCeiling ==
  FromLineFallback =>
    result.value.confidence[1] * 100
      <= Max(0, 75 - 15 * result.value.notes.dist) * result.value.confidence[2]

\* =====================================================================
\* extraction/cache_manager.py: OCRCacheManager (specification SpecCache).
\* A path is a directory and a file stem; every PDF exists and has a
\* content hash; cache_files maps the names of the files in the cache
\* directory to their contents, metadata is the dictionary of the manager.
\* =====================================================================
Paths ==
  {[dir |-> "a", stem |-> "doc"], [dir |-> "b", stem |-> "doc"], [dir |-> "a", stem |-> "scan"]}

Hashes == {"h1", "h2"}

Texts == {<<"A">>, <<"B">>}

\* _get_cache_filename (lines 60-73): the file stem alone
CacheFilename(p) == [name |-> p.stem, ext |-> ".txt"]

\* _get_pdf_hash (lines 47-58)
PdfHash(p) == pdf_files[p]

\* is_cached (lines 75-96)
IsCached(p) ==
  /\ CacheFilename(p) \in DOMAIN cache_files
  /\ p \in DOMAIN metadata
  /\ metadata[p].pdf_hash = PdfHash(p)

\* get_cached_text (lines 98-113)
CachedText(p) == IF IsCached(p) THEN cache_files[CacheFilename(p)] ELSE None

\* the writes of cache_text (lines 115-141)
StoreText(p, text) ==
  /\ cache_files' = (CacheFilename(p) :> text) @@ cache_files
  /\ metadata' = (p :> [cache_file |-> CacheFilename(p), pdf_hash |-> PdfHash(p),
                        extraction_method |-> "pdfplumber"]) @@ metadata
  /\ cached_for' = (p :> [text |-> text, pdf_hash |-> PdfHash(p)]) @@ cached_for

cacheOther == <<entry, field_names, config, idx, field_results, calls, insurance_cache,
                attempts, history, now, process_result>>

InitCache ==
  /\ entry = "OCRCacheManager"
  /\ pc = "idle"
  /\ doc = None
  /\ field_names = <<>>
  /\ config = None
  /\ idx = 1
  /\ field_results = <<>>
  /\ result = NotStarted
  /\ calls = 0
  /\ insurance_cache = <<>>
  /\ attempts = <<>>
  /\ history = <<>>
  /\ now = 0
  /\ process_result = None
  /\ cache_files = [f \in {} |-> None]
  /\ metadata = [p \in {} |-> None]
  /\ cached_for = [p \in {} |-> None]
  /\ pdf_files \in [Paths -> Hashes]

GetCachedText ==
  /\ entry = "OCRCacheManager"
  /\ \E p \in Paths :
        /\ doc' = p
        /\ result' = Returned(CachedText(p))
  /\ pc' = "get_cached_text"
  /\ UNCHANGED <<cache_files, metadata, pdf_files, cached_for>>
  /\ UNCHANGED cacheOther

CacheText ==
  /\ entry = "OCRCacheManager"
  /\ \E p \in Paths, text \in Texts : StoreText(p, text)
  /\ result' = Returned(None)
  /\ pc' = "cache_text"
  /\ UNCHANGED <<doc, pdf_files>>
  /\ UNCHANGED cacheOther

\* extract_and_cache (lines 143-168); read_pdf_text gives some text or raises
ExtractAndCache ==
  /\ entry = "OCRCacheManager"
  /\ \E p \in Paths, force \in BOOLEAN :
        /\ IF ~force /\ CachedText(p) # None
           THEN /\ result' = Returned(CachedText(p))
                /\ UNCHANGED <<cache_files, metadata, cached_for>>
           ELSE \/ /\ result' = Raised("PDFReadError")
                   /\ UNCHANGED <<cache_files, metadata, cached_for>>
                \/ \E text \in Texts :
                     /\ StoreText(p, text)
                     /\ result' = Returned(text)
  /\ pc' = "extract_and_cache"
  /\ UNCHANGED <<doc, pdf_files>>
  /\ UNCHANGED cacheOther

\* clear_cache (lines 170-176)
ClearCache ==
  /\ entry = "OCRCacheManager"
  /\ cache_files' = [f \in {} |-> None]
  /\ metadata' = [p \in {} |-> None]
  /\ cached_for' = [p \in {} |-> None]
  /\ result' = Returned(None)
  /\ pc' = "clear_cache"
  /\ UNCHANGED <<doc, pdf_files>>
  /\ UNCHANGED cacheOther

\* a PDF is replaced on disk by one of different content
ModifyPdf ==
  /\ entry = "OCRCacheManager"
  /\ \E p \in Paths, h \in Hashes :
        /\ h # pdf_files[p]
        /\ pdf_files' = [pdf_files EXCEPT ![p] = h]
  /\ pc' = "idle"
  /\ UNCHANGED <<doc, result, cache_files, metadata, cached_for>>
  /\ UNCHANGED cacheOther

NextCache == GetCachedText \/ CacheText \/ ExtractAndCache \/ ClearCache \/ ModifyPdf

SpecCache == InitCache /\ [][NextCache]_vars

\* C29: get_cached_text(p) returns None or exactly the text most recently
\* cached for p, and that only while the hash of the PDF is the one it had
\* when the text was cached; it never returns text that was cached for a
\* different path.
C29_CachedTextIsOwn ==
  (pc = "get_cached_text" /\ result.value # None) =>
    /\ doc \in DOMAIN cached_for
    /\ result.value = cached_for[doc].text
    /\ cached_for[doc].pdf_hash = pdf_files[doc]

\* =====================================================================
\* app.py: process_pdf (specification SpecApp). The steps of process_pdf
\* run around the stages of extract_all_fields; process_result is the
\* dictionary process_pdf builds and returns.
\* =====================================================================
\* FileIntegrityChecker.MIN_FILE_SIZE and MIN_EXTRACTABLE_TEXT
IntegrityMinFileSize == 1000

MinExtractableText == 100

\* FileIntegrityChecker.validate_file (lines 239-297): "valid" or the
\* corruption type
IntegrityCheck(d) ==
  IF d.file = "missing" THEN "file_not_found"
  ELSE IF d.size = 0 THEN "empty_file"
  ELSE IF d.size < IntegrityMinFileSize THEN "file_too_small"
  ELSE IF d.structure # "ok" THEN d.structure
  ELSE IF d.length < MinExtractableText THEN "insufficient_text"
  ELSE "valid"

\* the dictionary of lines 120-130
InitialProcessResult ==
  [final_status |-> "ERROR", rejection_reasons |-> <<>>,
   edge_cases |-> [file_integrity |-> FALSE, document_type |-> FALSE],
   fields |-> <<>>, returned |-> FALSE]

\* result['fields'] after the loop of lines 170-175: the entries in the
\* order of the field results
FieldEntries(results) ==
  [i \in 1..Len(results) |->
     [field_name |-> results[i].field_name, value |-> results[i].extracted_value,
      confidence |-> results[i].confidence, method |-> results[i].extraction_method]]

\* result['fields'].get(fname, {}).get('value') is None: no entry of the
\* name, or the last one written under it holds None
ValueIsNone(fields, fname) ==
  LET at == {i \in 1..Len(fields) : fields[i].field_name = fname}
  IN at = {} \/ fields[CHOOSE i \in at : \A j \in at : j <= i].value = None

\* the checks of lines 177-185 without the one for the practice location
MissingFieldReasons_MedicaidOnly(fields) ==
  IF ValueIsNone(fields, "medicaid_id") THEN <<"Missing Medicaid ID">> ELSE <<>>

\* lines 177-185
MissingFieldReasons(fields) ==
  (IF ValueIsNone(fields, "medicaid_id") THEN <<"Missing Medicaid ID">> ELSE <<>>)
  \o (IF ValueIsNone(fields, "practice_location_name")
      THEN <<"Missing PBS Practice Location">> ELSE <<>>)

\* the statement "return result"
ReturnWith(status, reasons) ==
  [process_result EXCEPT !.final_status = status,
                         !.rejection_reasons = process_result.rejection_reasons \o reasons,
                         !.returned = TRUE]

\* the except clause of lines 196-200
ProcessingError(e) == ReturnWith("ERROR", <<[kind |-> "processing_error", error |-> e]>>)

appOther == <<entry, doc, field_names, config, idx, field_results, calls, insurance_cache,
              attempts, history, now, cache_files, metadata, pdf_files, cached_for>>

\* line 136: read_pdf_text(pdf_path)
ProcessReadText ==
  /\ pc = "process_pdf"
  /\ IF doc.file = "missing"
     THEN process_result' = ProcessingError("FileNotFoundError") /\ pc' = "returned"
     ELSE IF doc.file = "directory" \/ ~doc.app_read_ok
     THEN process_result' = ProcessingError("PDFReadError") /\ pc' = "returned"
     ELSE pc' = "integrity" /\ UNCHANGED process_result
  /\ UNCHANGED result
  /\ UNCHANGED appOther

\* lines 138-149
ProcessIntegrity ==
  /\ pc = "integrity"
  /\ LET passed == IntegrityCheck(doc) = "valid"
         checked == [process_result EXCEPT !.edge_cases.file_integrity = passed]
     IN IF passed
        THEN process_result' = checked /\ pc' = "doc_type"
        ELSE /\ process_result' =
                  [checked EXCEPT !.final_status = "NEEDS_REVIEW",
                                  !.rejection_reasons =
                                     <<[kind |-> "file_integrity", type |-> IntegrityCheck(doc)]>>,
                                  !.returned = TRUE]
             /\ pc' = "returned"
  /\ UNCHANGED result
  /\ UNCHANGED appOther

\* lines 151-161
ProcessDocType ==
  /\ pc = "doc_type"
  /\ LET passed == ValidateDocument(doc)
         checked == [process_result EXCEPT !.edge_cases.document_type = passed]
     IN IF passed
        THEN process_result' = checked /\ pc' = "extract_all_fields"
        ELSE /\ process_result' =
                  [checked EXCEPT !.final_status = "REJECTED",
                                  !.rejection_reasons = <<"wrong_document_type">>,
                                  !.returned = TRUE]
             /\ pc' = "returned"
  /\ UNCHANGED result
  /\ UNCHANGED appOther

\* lines 163-200, once extract_all_fields has returned or raised
ProcessDecide ==
  /\ entry = "process_pdf"
  /\ pc = "done"
  /\ IF result.kind = "raise"
     THEN process_result' = ProcessingError(result.value)
     ELSE LET fields == FieldEntries(result.value.field_results)
              reasons == MissingFieldReasons(fields)
          IN process_result' =
               [ReturnWith(IF reasons # <<>> THEN "REJECTED" ELSE "APPROVED", reasons)
                  EXCEPT !.fields = fields]
  /\ pc' = "returned"
  /\ UNCHANGED result
  /\ UNCHANGED appOther

AppTexts == {<<"M", "1">>, <<"M", "B", "1">>, <<"M", NL, "x", "x">>, <<>>}

AppDocuments ==
  [file : {"missing", "directory", "file"}, size : {0, 500, 5000}, ext : {".pdf"},
   app_read_ok : BOOLEAN, structure : {"ok", "no_pages", "encrypted", "corrupted_pdf"},
   first_read_ok : {TRUE}, second_read_ok : BOOLEAN, length : {50, 5000},
   phrases : {{"caqh", "data summary", "provider", "individual npi", "practice location"},
              {"caqh", "practice location", "medicaid"}},
   ocr_marker : {FALSE}, ocr_word : {FALSE}, text : AppTexts, policies : {<<>>}]

InitApp ==
  /\ entry = "process_pdf"
  /\ pc = entry
  /\ doc \in AppDocuments
  /\ field_names = None
  /\ config \in [loads : BOOLEAN,
                 fields : {GoodConfig(2),
                           [GoodConfig(2) EXCEPT !["medicaid_id"] = MissingConfig],
                           [GoodConfig(2) EXCEPT !["practice_location_name"] = MissingConfig],
                           [GoodConfig(2) EXCEPT !["ssn"] =
                              FieldConfig(<<"M">>, "(", 1, "", FALSE)]}]
  /\ idx = 1
  /\ field_results = <<>>
  /\ result = NotStarted
  /\ calls = 0
  /\ insurance_cache = <<>>
  /\ attempts = <<>>
  /\ history = <<>>
  /\ now = 0
  /\ cache_files = <<>>
  /\ metadata = <<>>
  /\ pdf_files = <<>>
  /\ cached_for = <<>>
  /\ process_result = InitialProcessResult

NextApp ==
  \/ ProcessReadText
  \/ ProcessIntegrity
  \/ ProcessDocType
  \/ ValidateFile
  \/ ReadText
  \/ GateCheck
  \/ LoadConfig
  \/ ExtractNextField
  \/ Aggregate
  \/ ProcessDecide

SpecApp == InitApp /\ [][NextApp]_vars

\* ---------------------------------------------------------------------
\* Properties of process_pdf
\* ---------------------------------------------------------------------
ProcessReturned == entry = "process_pdf" /\ pc = "returned"

\* C30: process_pdf never raises: it ends by returning its dictionary with
\* final_status APPROVED, REJECTED, NEEDS_REVIEW or ERROR; APPROVED is
\* returned only if the integrity check and the document-type check passed
\* and medicaid_id and practice_location_name were both extracted with
\* values other than None, and then rejection_reasons is empty.
C30_ApprovedOnlyWhenComplete ==
  /\ (entry = "process_pdf" /\ process_result.returned) => pc = "returned"
  /\ ProcessReturned =>
       /\ process_result.returned
       /\ process_result.final_status \in {"APPROVED", "REJECTED", "NEEDS_REVIEW", "ERROR"}
       /\ process_result.final_status = "APPROVED" =>
            /\ process_result.edge_cases.file_integrity
            /\ process_result.edge_cases.document_type
            /\ IntegrityCheck(doc) = "valid"
            /\ ValidateDocument(doc)
            /\ \A f \in {"medicaid_id", "practice_location_name"} :
                 \E i \in 1..Len(field_results) :
                    /\ field_results[i].field_name = f
                    /\ field_results[i].extracted_value # None
            /\ process_result.rejection_reasons = <<>>

\* a document passed both checks, both fields were extracted and the
\* document was approved
C30_Witness ==
  /\ ProcessReturned
  /\ process_result.final_status = "APPROVED"
  /\ Len(process_result.fields) = Len(DefaultFieldNames)

====
